---- MODULE Spec2Model ----
(***************************************************************************)
(* A model of the read-it-later article manager (vksgaur/readitlater):     *)
(* the web application's local-first storage and Firestore sync            *)
(* (src/reader.js, src/app.js), the tag normalizer, and the Chrome         *)
(* extension's save paths (src/chrome-extension/background.js and the two  *)
(* popup scripts of src/unnamed/part_001).                                 *)
(***************************************************************************)
EXTENDS Integers, Sequences, FiniteSets, TLC

VARIABLES
    build,                \* which copy of the web application is running
    isConfigured,         \* FirebaseService.isConfigured
    listenerFired,        \* the auth listener has delivered its first callback
    currentUser,          \* web app: let currentUser
    unsubscribeSnapshot,  \* web app: let unsubscribeSnapshot (0 is null)
    subs,                 \* the onSnapshot listeners the SDK still holds
    nextHandle,           \* next listener handle the SDK gives out
    localArticles,        \* localStorage[STORAGE_KEY], parsed
    remote,               \* Firestore: users/<uid>/articles, doc id -> fields
    ops,                  \* Storage calls whose remote write is in flight
    nextId,               \* the clock behind Article.generateId / dateAdded
    calls,                \* Storage calls made so far
    ext,                  \* the extension: popup session and chrome.storage.local
    ui,                   \* web app: folders, the open reader, reading sessions
    last                  \* what the last step did (history)

vars == <<build, isConfigured, listenerFired, currentUser, unsubscribeSnapshot,
          subs, nextHandle, localArticles, remote, ops, nextId, calls, ext, ui, last>>

----------------------------------------------------------------------------
\* Bounds of the model.

\* Selectors in the list the content node is chosen with.
MaxSelectors == 3

\* Reading sessions saved to the history in one run.
MaxSessions == 2

\* Storage calls made in one run (so at most that many articles, ids 1..MaxCalls).
MaxCalls == 2
\* onSnapshot listeners started in one run.
MaxSubs == 2
\* Tag normalizer: articles in the collection.
MaxTagArticles == 3
\* Content extraction: paragraphs of the document.
MaxParagraphs == 2

----------------------------------------------------------------------------
\* Values.

Users == {"u1", "u2"}
NoUser == "none"
Builds == {"reader_a", "reader_b", "app"}
Ids == 1..MaxCalls

\* {...a, ...b}: the fields of b over the fields of a.
Spread(a, b) ==
    [f \in (DOMAIN a) \cup (DOMAIN b) |-> IF f \in DOMAIN b THEN b[f] ELSE a[f]]

\* a.id, 0 standing for undefined (no article the clock names has id 0).
IdOf(a) == IF "id" \in DOMAIN a THEN a["id"] ELSE 0

\* The ids of a collection, as a set.
IdsOf(articles) == {IdOf(articles[k]) : k \in 1..Len(articles)}

\* articles.findIndex(a => a.id === id), 0 for -1.
FindIndex(articles, id) ==
    IF \E k \in 1..Len(articles) : IdOf(articles[k]) = id
    THEN CHOOSE k \in 1..Len(articles) :
            /\ IdOf(articles[k]) = id
            /\ \A j \in 1..(k - 1) : IdOf(articles[j]) # id
    ELSE 0

\* articles.filter(a => a.id !== id)
RECURSIVE FilterOut(_, _)
FilterOut(articles, id) ==
    IF articles = <<>> THEN <<>>
    ELSE IF IdOf(Head(articles)) = id THEN FilterOut(Tail(articles), id)
         ELSE <<Head(articles)>> \o FilterOut(Tail(articles), id)

\* chrome.storage.local keys of the extension: STORAGE_KEY of the second popup
\* script and of the background script, and what AUTH_STORAGE_KEY holds when
\* nobody is signed in.
PendingKey == "margins_pending_articles"
BackgroundKey == "readlater_articles"
NoAuth == [user |-> NoUser, idToken |-> "none"]

\* The extension before anybody signed in or saved.
NoExt ==
    [user |-> NoUser, idToken |-> "none", auth |-> NoAuth,
     store |-> [k \in {PendingKey, BackgroundKey} |-> <<>>]]

\* The web app's folders and folder filter before anything was done:
\* localStorage['readlater_folders'] is empty and UI.currentFolderFilter is null.
NoUi ==
    [folders |-> <<>>, foldersDeleted |-> 0, currentFolderFilter |-> "null",
     currentSession |-> <<>>, readingSessions |-> <<>>,
     isOpen |-> FALSE, currentArticle |-> <<>>, highlights |-> <<>>,
     view |-> "none", shown |-> "", fetches |-> {},
     fetchPc |-> "idle", proxyIndex |-> 0, abortTimer |-> FALSE, failures |-> <<>>,
     adding |-> {}, confirmShown |-> {}, imports |-> <<>>]

\* new Article(...): id and dateAdded come from the clock.
NewArticle(t) ==
    [id |-> t, isRead |-> FALSE, dateAdded |-> t, tags |-> <<>>,
     isFavorite |-> FALSE, isArchived |-> FALSE, folderId |-> "null"]

\* new Article(...) of src/app.js: the first version has no tags and no
\* organization fields.
NewArticleIn(b, t) ==
    IF b = "app" THEN [id |-> t, isRead |-> FALSE, dateAdded |-> t]
    ELSE NewArticle(t)

----------------------------------------------------------------------------
\* LocalStorage (src/reader.js 1107-1149): the collection is one JSON blob.

\* localStorage.setItem(STORAGE_KEY, JSON.stringify(articles)): the blob is
\* replaced, whatever it held.
saveArticles(stored, articles) == articles

\* Mutant of LocalStorage_addArticle: the new collection is never stored.
LocalStorage_addArticle_NoSave(articles, article) == articles

\* articles.unshift(article); saveArticles(articles)
LocalStorage_addArticle(articles, article) ==
    saveArticles(articles, <<article>> \o articles)

\* Mutant of LocalStorage_updateArticle: the record is replaced by the updates.
LocalStorage_updateArticle_Replace(articles, id, updates) ==
    LET index == FindIndex(articles, id) IN
    IF index # 0
    THEN saveArticles(articles, [articles EXCEPT ![index] = Spread([id |-> id], updates)])
    ELSE articles

\* articles[index] = {...articles[index], ...updates} when the id is found
LocalStorage_updateArticle(articles, id, updates) ==
    LET index == FindIndex(articles, id) IN
    IF index # 0
    THEN saveArticles(articles, [articles EXCEPT ![index] = Spread(@, updates)])
    ELSE articles

\* saveArticles(articles.filter(a => a.id !== id))
LocalStorage_deleteArticle(articles, id) ==
    saveArticles(articles, FilterOut(articles, id))

\* The local half of a call whose localStorage.setItem throws (quota):
\* saveArticles catches, returns false, and the blob is what it was.
LocalWriteFull(articles, kind, id, payload) == articles

\* The local half of Storage.addArticle / updateArticle / deleteArticle.
LocalWrite(articles, kind, id, payload) ==
    CASE kind = "add"    -> LocalStorage_addArticle(articles, payload)
      [] kind = "update" -> LocalStorage_updateArticle(articles, id, payload)
      [] kind = "delete" -> LocalStorage_deleteArticle(articles, id)

----------------------------------------------------------------------------
\* The remote collection of one user: a function from document ids to fields.

NoDocs == [i \in {} |-> <<>>]

\* article.field || fallback
OrElse(article, field, fallback) ==
    IF field \in DOMAIN article THEN article[field] ELSE fallback

\* The fields FirebaseService.addArticle writes (the id is the document name):
\* src/app.js sends isRead and dateAdded only, src/reader.js also the tags and
\* the organization fields.
AddFields(b, article) ==
    IF b = "app"
    THEN [isRead |-> article["isRead"], dateAdded |-> article["dateAdded"]]
    ELSE [isRead     |-> article["isRead"],
          dateAdded  |-> article["dateAdded"],
          tags       |-> OrElse(article, "tags", <<>>),
          isFavorite |-> OrElse(article, "isFavorite", FALSE),
          isArchived |-> OrElse(article, "isArchived", FALSE),
          folderId   |-> OrElse(article, "folderId", "null"),
          highlights |-> OrElse(article, "highlights", <<>>),
          readProgress |-> OrElse(article, "readProgress", 0),
          content    |-> OrElse(article, "content", "")]

\* doc(id).set(fields)
SetDoc(coll, id, fields) ==
    [i \in (DOMAIN coll) \cup {id} |-> IF i = id THEN fields ELSE coll[i]]

\* doc(id).set(updates, {merge: true}): creates the document when missing.
SetMerge(coll, id, updates) ==
    SetDoc(coll, id, IF id \in DOMAIN coll THEN Spread(coll[id], updates) ELSE updates)

\* doc(id).delete()
DeleteDoc(coll, id) == [i \in (DOMAIN coll) \ {id} |-> coll[i]]

\* The write a FirebaseService call asks of Firestore. In src/app.js the update
\* is doc(id).update(updates), which needs the document to exist.
RemoteWrite(b, coll, kind, id, payload) ==
    CASE kind = "add"    -> SetDoc(coll, id, AddFields(b, payload))
      [] kind = "update" -> IF b = "app" /\ id \notin DOMAIN coll THEN coll
                            ELSE SetMerge(coll, id, payload)
      [] kind = "delete" -> DeleteDoc(coll, id)

\* doc(id).update() of a missing document rejects and doc(undefined) throws;
\* every other write can succeed.
CanResolve(b, coll, kind, id) ==
    /\ ~(b = "app" /\ kind = "update" /\ id \notin DOMAIN coll)
    /\ id # 0

\* orderBy('dateAdded', 'desc'): the documents that have the field, newest first.
RECURSIVE OrderByDateDesc(_, _)
OrderByDateDesc(coll, left) ==
    IF left = {} THEN <<>>
    ELSE LET top == CHOOSE i \in left :
                        \A j \in left : coll[j]["dateAdded"] <= coll[i]["dateAdded"]
         IN  <<top>> \o OrderByDateDesc(coll, left \ {top})

SnapshotDocIds(coll) ==
    OrderByDateDesc(coll, {i \in DOMAIN coll : "dateAdded" \in DOMAIN coll[i]})

\* One element of the snapshot as the onSnapshot callback builds it.
DecodeDoc(b, id, data, now) ==
    LET base == Spread([id |-> id], data) IN
    IF b = "reader_a"
    THEN Spread(base,
           [folderId   |-> OrElse(data, "folderId", "null"),
            isArchived |-> OrElse(data, "isArchived", FALSE),
            isRead     |-> OrElse(data, "isRead", FALSE),
            tags       |-> OrElse(data, "tags", <<>>),
            dateAdded  |-> OrElse(data, "dateAdded", now)])
    ELSE base

\* snapshot.forEach(doc => articles.push(...))
SnapshotArticles(b, coll, now) ==
    LET order == SnapshotDocIds(coll) IN
    [k \in 1..Len(order) |-> DecodeDoc(b, order[k], coll[order[k]], now)]

\* Mutant of OnSnapshot: the snapshot is merged over the records already stored.
OnSnapshot_Merge(b, stored, coll, now) ==
    SnapshotArticles(b, coll, now) \o
        SelectSeq(stored, LAMBDA a : a["id"] \notin DOMAIN coll)

\* The onSnapshot callback's write: LocalStorage.saveArticles(articles).
OnSnapshot(b, stored, coll, now) == saveArticles(stored, SnapshotArticles(b, coll, now))

----------------------------------------------------------------------------
\* FirebaseService.normalizeExistingTags (src/reader.js 848-908), which init
\* runs at every start.

TagUniverse == {"ux", "Ux", "UX", "js"}

\* tag.toLowerCase(); every other tag of the model is lowercase already.
ToLowerCase(tag) ==
    CASE tag = "ux" -> "ux"
      [] tag = "Ux" -> "ux"
      [] tag = "UX" -> "ux"
      [] tag = "js" -> "js"
      [] OTHER      -> tag

\* a.tags && Array.isArray(a.tags)
HasTags(a) == "tags" \in DOMAIN a

\* entry[tag] = (entry[tag] || 0) + 1, the entry keeping its keys in the order
\* they were first set.
CountCasing(entry, tag) ==
    IF \E k \in 1..Len(entry) : entry[k].variant = tag
    THEN [k \in 1..Len(entry) |->
            IF entry[k].variant = tag
            THEN [entry[k] EXCEPT !.count = @ + 1] ELSE entry[k]]
    ELSE Append(entry, [variant |-> tag, count |-> 1])

\* Step 1 for one tag: tagMap.get(lower), created empty when missing.
CountTag(tagMap, tag) ==
    LET lower == ToLowerCase(tag)
        entry == IF lower \in DOMAIN tagMap THEN tagMap[lower] ELSE <<>>
    IN  [l \in (DOMAIN tagMap) \cup {lower} |->
            IF l = lower THEN CountCasing(entry, tag) ELSE tagMap[l]]

RECURSIVE CountTags(_, _)
CountTags(tagMap, tags) ==
    IF tags = <<>> THEN tagMap
    ELSE CountTags(CountTag(tagMap, Head(tags)), Tail(tags))

\* Step 1: articles.forEach(a => a.tags.forEach(...))
RECURSIVE BuildTagMap(_, _)
BuildTagMap(tagMap, articles) ==
    IF articles = <<>> THEN tagMap
    ELSE BuildTagMap(
            IF HasTags(Head(articles))
            THEN CountTags(tagMap, Head(articles)["tags"]) ELSE tagMap,
            Tail(articles))

\* Mutant of BestVariant: a later variant with the same count replaces the best.
RECURSIVE BestVariant_LastWins(_, _, _)
BestVariant_LastWins(entry, bestCurrent, maxCount) ==
    IF entry = <<>> THEN bestCurrent
    ELSE IF Head(entry).count >= maxCount
         THEN BestVariant_LastWins(Tail(entry), Head(entry).variant, Head(entry).count)
         ELSE BestVariant_LastWins(Tail(entry), bestCurrent, maxCount)

\* Step 2 for one group: Object.entries(variations).forEach with count > maxCount.
RECURSIVE BestVariant(_, _, _)
BestVariant(entry, bestCurrent, maxCount) ==
    IF entry = <<>> THEN bestCurrent
    ELSE IF Head(entry).count > maxCount
         THEN BestVariant(Tail(entry), Head(entry).variant, Head(entry).count)
         ELSE BestVariant(Tail(entry), bestCurrent, maxCount)

\* Step 2: canonicalMap, lowercase -> canonical casing.
CanonicalMap(tagMap) ==
    [lower \in DOMAIN tagMap |-> BestVariant(tagMap[lower], lower, -1)]

\* a.tags.map(t => canonicalMap.get(t.toLowerCase()) || t)
NewTags(canonicalMap, tags) ==
    [k \in 1..Len(tags) |->
        IF ToLowerCase(tags[k]) \in DOMAIN canonicalMap
        THEN canonicalMap[ToLowerCase(tags[k])] ELSE tags[k]]

\* Mutant of NormalizeStep: every article with tags is saved, changed or not.
NormalizeStep_AlwaysSave(st, k, canonicalMap) ==
    IF HasTags(st.articles[k])
    THEN LET updated == [st.articles EXCEPT
                            ![k] = Spread(@, [tags |-> NewTags(canonicalMap, @["tags"])])]
         IN  [articles |-> updated,
              stored   |-> saveArticles(st.stored, updated),
              writes   |-> st.writes + 1]
    ELSE st

\* Step 3 for the article at k: when its tags change, a.tags = newTags and the
\* whole array is saved.
NormalizeStep(st, k, canonicalMap) ==
    IF HasTags(st.articles[k])
       /\ NewTags(canonicalMap, st.articles[k]["tags"]) # st.articles[k]["tags"]
    THEN LET updated == [st.articles EXCEPT
                            ![k] = Spread(@, [tags |-> NewTags(canonicalMap, @["tags"])])]
         IN  [articles |-> updated,
              stored   |-> saveArticles(st.stored, updated),
              writes   |-> st.writes + 1]
    ELSE st

RECURSIVE NormalizeLoop(_, _, _)
NormalizeLoop(st, k, canonicalMap) ==
    IF k > Len(st.articles) THEN st
    ELSE NormalizeLoop(NormalizeStep(st, k, canonicalMap), k + 1, canonicalMap)

\* normalizeExistingTags(): what is stored afterwards and how many saves it made.
normalizeExistingTags(stored) ==
    IF Len(stored) = 0 THEN [articles |-> stored, stored |-> stored, writes |-> 0]
    ELSE NormalizeLoop([articles |-> stored, stored |-> stored, writes |-> 0], 1,
                       CanonicalMap(BuildTagMap([l \in {} |-> <<>>], stored)))

----------------------------------------------------------------------------
\* Storage (src/reader.js 1155-1196) and FirebaseService's writes (1031-1100).

\* Mutant of StorageOutcome: a rejected write is reported as a success.
StorageOutcome_Swallow(b, kind, success) == "true"

\* What a Storage call gives its caller once the remote write has settled:
\* FirebaseService catches the rejection and returns false; Storage.updateArticle
\* of src/reader.js turns that false into a thrown Error.
StorageOutcome(b, kind, success) ==
    IF success THEN "true"
    ELSE IF kind = "update" /\ b # "app" THEN "throw"
    ELSE "false"

\* The cache after the sign-out branch of the auth listener: only the first
\* copy of src/reader.js removes STORAGE_KEY.
OnSignOut(b, stored) == IF b = "reader_a" THEN <<>> ELSE stored

NoLast ==
    [type |-> "init", kind |-> "", id |-> 0, payload |-> <<>>, result |-> "",
     reason |-> "", uid |-> NoUser, remoteIssued |-> FALSE, n |-> 0,
     attempts |-> 0, intact |-> FALSE, writes |-> 0, streak |-> 0,
     prevWrites |-> 0, trace |-> <<>>, refreshes |-> 0, refreshed |-> FALSE,
     retryOk |-> FALSE, localOk |-> TRUE]

\* History: the calls in flight whose article the cache may no longer show
\* because a snapshot, a sign-out or a later call on the same id came between.
Disturb(inflight, ids) ==
    {IF o.id \in ids THEN [o EXCEPT !.intact = FALSE] ELSE o : o \in inflight}

InitWeb(b) ==
    /\ build = b
    /\ isConfigured \in BOOLEAN
    /\ listenerFired = FALSE
    /\ currentUser = NoUser
    /\ unsubscribeSnapshot = 0
    /\ subs = {}
    /\ nextHandle = 1
    /\ localArticles = <<>>
    /\ remote = [u \in Users |-> NoDocs]
    /\ ops = {}
    /\ nextId = 1
    /\ calls = 0
    /\ ext = NoExt
    /\ ui = NoUi
    /\ last = NoLast

Init == InitWeb("reader_a")

\* auth.onAuthStateChanged(user => ...): the first callback reports whoever is
\* persisted, later ones a change of user. A user starts a subscription
\* (subscribeToArticles assigns unsubscribeSnapshot without calling the old one);
\* null unsubscribes the handle held and, in the first copy of src/reader.js,
\* removes the cached collection.
AuthStateChanged(u) ==
    /\ isConfigured
    /\ (listenerFired => u # currentUser)
    /\ listenerFired' = TRUE
    /\ currentUser' = u
    /\ IF u # NoUser
       THEN /\ nextHandle <= MaxSubs
            /\ subs' = subs \cup {[handle |-> nextHandle, uid |-> u]}
            /\ unsubscribeSnapshot' = nextHandle
            /\ nextHandle' = nextHandle + 1
            /\ UNCHANGED localArticles
       ELSE /\ subs' = {s \in subs : s.handle # unsubscribeSnapshot}
            /\ unsubscribeSnapshot' = 0
            /\ localArticles' = OnSignOut(build, localArticles)
            /\ UNCHANGED nextHandle
    /\ ops' = IF u = NoUser THEN Disturb(ops, Ids) ELSE ops
    /\ last' = [NoLast EXCEPT !.type = "auth", !.uid = u]
    /\ UNCHANGED <<ui, ext, build, isConfigured, remote, nextId, calls>>

\* A snapshot delivered to a listener the SDK still holds.
Snapshot(s) ==
    /\ s \in subs
    /\ localArticles' = OnSnapshot(build, localArticles, remote[s.uid], nextId)
    /\ ops' = Disturb(ops, Ids)
    /\ last' = [NoLast EXCEPT !.type = "snapshot", !.uid = s.uid]
    /\ UNCHANGED <<ui, ext, build, isConfigured, listenerFired, currentUser,
                   unsubscribeSnapshot, subs, nextHandle, remote, nextId, calls>>

\* The synchronous part of a Storage call: the local write, then, when signed
\* in, the FirebaseService call that issues the remote write.
StorageCallFrom(kind, id, payload, setItemOk, view) ==
    LET signedIn == currentUser # NoUser /\ isConfigured IN
    /\ calls < MaxCalls
    /\ ui' = view
    /\ calls' = calls + 1
    /\ localArticles' = IF setItemOk
                        THEN LocalWrite(localArticles, kind, id, payload)
                        ELSE LocalWriteFull(localArticles, kind, id, payload)
    /\ ops' = IF signedIn
              THEN Disturb(ops, {id}) \cup
                   {[kind |-> kind, id |-> id, payload |-> payload,
                     uid |-> currentUser, n |-> calls + 1, attempts |-> 1,
                     intact |-> setItemOk]}
              ELSE Disturb(ops, {id})
    /\ last' = [NoLast EXCEPT !.type = "call", !.kind = kind, !.id = id,
                              !.payload = payload, !.remoteIssued = signedIn,
                              !.n = calls + 1, !.intact = setItemOk,
                              !.localOk = setItemOk,
                              !.attempts = IF signedIn THEN 1 ELSE 0,
                              !.result = IF signedIn THEN "" ELSE "true"]
    /\ UNCHANGED <<ext, build, isConfigured, listenerFired, currentUser,
                   unsubscribeSnapshot, subs, nextHandle, remote>>

\* A Storage call made by a handler that changes nothing else.
StorageCallWith(kind, id, payload, setItemOk) ==
    StorageCallFrom(kind, id, payload, setItemOk, ui)

\* A Storage call whose localStorage.setItem succeeds.
StorageCall(kind, id, payload) == StorageCallWith(kind, id, payload, TRUE)

AddArticle ==
    /\ StorageCall("add", nextId, NewArticleIn(build, nextId))
    /\ nextId' = nextId + 1

UpdateArticle(id, updates) ==
    /\ id \in 1..(nextId - 1)
    /\ StorageCall("update", id, updates)
    /\ UNCHANGED nextId

DeleteArticle(id) ==
    /\ id \in 1..(nextId - 1)
    /\ StorageCall("delete", id, <<>>)
    /\ UNCHANGED nextId

\* The remote write resolves: Firestore holds the result and the call returns true.
RemoteResolve(op) ==
    /\ op \in ops
    /\ CanResolve(build, remote[op.uid], op.kind, op.id)
    /\ remote' = [remote EXCEPT
                    ![op.uid] = RemoteWrite(build, @, op.kind, op.id, op.payload)]
    /\ ops' = ops \ {op}
    /\ last' = [NoLast EXCEPT !.type = "done", !.kind = op.kind, !.id = op.id,
                              !.payload = op.payload, !.uid = op.uid,
                              !.remoteIssued = TRUE, !.n = op.n,
                              !.attempts = op.attempts, !.intact = op.intact,
                              !.result = StorageOutcome(build, op.kind, TRUE)]
    /\ UNCHANGED <<ui, ext, build, isConfigured, listenerFired, currentUser,
                   unsubscribeSnapshot, subs, nextHandle, localArticles, nextId, calls>>

\* The remote write rejects, for an expired authentication or anything else.
RemoteReject(op, reason) ==
    /\ op \in ops
    /\ ops' = ops \ {op}
    /\ last' = [NoLast EXCEPT !.type = "done", !.kind = op.kind, !.id = op.id,
                              !.payload = op.payload, !.uid = op.uid,
                              !.remoteIssued = TRUE, !.reason = reason,
                              !.n = op.n, !.attempts = op.attempts,
                              !.intact = op.intact,
                              !.result = StorageOutcome(build, op.kind, FALSE)]
    /\ UNCHANGED <<ui, ext, build, isConfigured, listenerFired, currentUser,
                   unsubscribeSnapshot, subs, nextHandle, localArticles, remote,
                   nextId, calls>>

\* LocalStorage.getArticles(): the parsed blob, [] when the key is absent.
getArticles(stored) == stored

\* Mutant of OnSnapshotError: the error callback stores an empty collection.
OnSnapshotError_Clear(stored) == [stored |-> <<>>, rendered |-> <<>>]

\* The onSnapshot error callback: nothing is stored, and what is rendered is
\* read back from localStorage.
OnSnapshotError(stored) == [stored |-> stored, rendered |-> getArticles(stored)]

ErrorCodes == {"permission-denied", "unavailable"}

\* The listener fails: Firestore ends it after calling the error callback.
SnapshotError(s, code) ==
    /\ s \in subs
    /\ subs' = subs \ {s}
    /\ localArticles' = OnSnapshotError(localArticles).stored
    /\ last' = [NoLast EXCEPT !.type = "snapshotError", !.uid = s.uid,
                              !.reason = code,
                              !.payload = OnSnapshotError(localArticles).rendered]
    /\ UNCHANGED <<ui, ext, build, isConfigured, listenerFired, currentUser,
                   unsubscribeSnapshot, nextHandle, remote, ops, nextId, calls>>

\* The deployments in the order they were written: a reload serves the copy
\* that ran before or a later one.
Newer(b) ==
    CASE build = "app"      -> b \in {"app", "reader_b", "reader_a"}
      [] build = "reader_b" -> b \in {"reader_b", "reader_a"}
      [] build = "reader_a" -> b = "reader_a"

\* The page is loaded again: the script's variables start over, localStorage and
\* Firestore are what they were, a remote write still in flight is abandoned,
\* and FirebaseService.init runs (the normalizer where the copy has one; the
\* auth listener's first callback follows as its own step). The record of an
\* unauthenticated add or update made just before the reload is kept in last.
Restart(b) ==
    /\ Newer(b)
    /\ build' = b
    /\ listenerFired' = FALSE
    /\ currentUser' = NoUser
    /\ unsubscribeSnapshot' = 0
    /\ subs' = {}
    /\ ops' = {}
    /\ localArticles' = IF b = "app" THEN localArticles
                        ELSE normalizeExistingTags(localArticles).stored
    /\ last' = IF last.type = "call" /\ ~last.remoteIssued
               THEN [last EXCEPT !.type = "restart"]
               ELSE [NoLast EXCEPT !.type = "restart"]
    /\ UNCHANGED <<ui, ext, isConfigured, nextHandle, remote, nextId, calls>>

RejectReasons == {"auth", "other"}
Updates == {[isRead |-> TRUE], [isRead |-> FALSE], [highlights |-> <<"h">>]}

Next ==
    \/ \E u \in Users \cup {NoUser} : AuthStateChanged(u)
    \/ \E s \in subs : Snapshot(s)
    \/ AddArticle
    \/ \E id \in Ids, updates \in Updates : UpdateArticle(id, updates)
    \/ \E id \in Ids : DeleteArticle(id)
    \/ \E op \in ops : RemoteResolve(op)
    \/ \E op \in ops, reason \in RejectReasons : RemoteReject(op, reason)

Spec == Init /\ [][Next]_vars

\* The subscription's life: sign-ins, adds and their remote writes, snapshots,
\* and the listener failing.
NextSubscription ==
    \/ \E u \in Users \cup {NoUser} : AuthStateChanged(u)
    \/ \E s \in subs : Snapshot(s)
    \/ AddArticle
    \/ \E op \in ops : RemoteResolve(op)
    \/ \E op \in ops, reason \in RejectReasons : RemoteReject(op, reason)
    \/ \E s \in subs, code \in ErrorCodes : SnapshotError(s, code)

SpecSubscription == Init /\ [][NextSubscription]_vars

\* The same, with the page reloaded at any moment.
NextRestart ==
    \/ Next
    \/ \E b \in Builds : Restart(b)

SpecRestart == Init /\ [][NextRestart]_vars

\* An article as an earlier session left it: unread or read.
StoredArticles(id) == {NewArticle(id), [NewArticle(id) EXCEPT !["isRead"] = TRUE]}

\* The application without Firebase ("using localStorage only"), started over a
\* collection stored by earlier sessions.
InitLocal ==
    /\ build = "reader_a"
    /\ isConfigured = FALSE
    /\ listenerFired = FALSE
    /\ currentUser = NoUser
    /\ unsubscribeSnapshot = 0
    /\ subs = {}
    /\ nextHandle = 1
    /\ localArticles \in
          {<<>>} \cup {<<a>> : a \in StoredArticles(1)}
                 \cup {<<b, a>> : b \in StoredArticles(2), a \in StoredArticles(1)}
    /\ remote = [u \in Users |-> NoDocs]
    /\ ops = {}
    /\ nextId = Len(localArticles) + 1
    /\ calls = 0
    /\ ext = NoExt
    /\ ui = NoUi
    /\ last = NoLast

NextLocal ==
    \/ AddArticle
    \/ \E id \in Ids, updates \in Updates : UpdateArticle(id, updates)
    \/ \E id \in Ids : DeleteArticle(id)

SpecLocal == InitLocal /\ [][NextLocal]_vars

\* UI.saveImportedBooks (src/reader.js 2954-3002) for one book of the clippings
\* file: the article it builds for a title the cache does not have carries no
\* id and no dateAdded; for a title it has, the highlights are merged.
KindleArticle(title, highlights) ==
    [title |-> title, isRead |-> TRUE, tags |-> <<"kindle", "imported">>,
     highlights |-> highlights]

BookTitles == {"t1", "t2"}

\* The highlights a clippings file has for a book.
BookHighlights == {<<"h">>, <<"h2">>, <<"h", "h2">>}

\* existingArticles.find(a => a.title === book.title), 0 when there is none
FindTitle(articles, title) ==
    LET has(k) == "title" \in DOMAIN articles[k] /\ articles[k]["title"] = title IN
    IF \E k \in 1..Len(articles) : has(k)
    THEN CHOOSE k \in 1..Len(articles) : has(k) /\ \A j \in 1..(k - 1) : ~has(j)
    ELSE 0

\* [...(existing.highlights || [])] and then every highlight of the book whose
\* text is not among them yet.
MergeHighlights(existing, highlights) ==
    existing \o
    SelectSeq(highlights,
              LAMBDA h : \A k \in 1..Len(existing) : existing[k] # h)

\* One book of saveImportedBooks: the highlights are merged into the article
\* found by title and written with Storage.updateArticle(existing.id, ...),
\* or a new article is added.
ImportBook(title, highlights) ==
    LET found  == FindTitle(getArticles(localArticles), title)
        noted  == [ui EXCEPT !.imports = Append(@, title)]
    IN
    /\ IF found # 0
       THEN StorageCallFrom("update", IdOf(localArticles[found]),
                [highlights |->
                    MergeHighlights(OrElse(localArticles[found], "highlights", <<>>),
                                    highlights)],
                TRUE, noted)
       ELSE StorageCallFrom("add", 0, KindleArticle(title, highlights), TRUE, noted)
    /\ UNCHANGED nextId

NextImport ==
    \/ Next
    \/ \E title \in BookTitles, highlights \in BookHighlights :
          ImportBook(title, highlights)

SpecImport == Init /\ [][NextImport]_vars

\* The cache after two books were imported, the second one last.
InitImported ==
    /\ build = "reader_a"
    /\ isConfigured \in BOOLEAN
    /\ listenerFired = FALSE
    /\ currentUser = NoUser
    /\ unsubscribeSnapshot = 0
    /\ subs = {}
    /\ nextHandle = 1
    /\ \E first \in BookHighlights, second \in BookHighlights :
          localArticles = <<KindleArticle("t2", second), KindleArticle("t1", first)>>
    /\ remote = [u \in Users |-> NoDocs]
    /\ ops = {}
    /\ nextId = 1
    /\ calls = 0
    /\ ext = NoExt
    /\ ui = [NoUi EXCEPT !.imports = <<"t1", "t2">>]
    /\ last = NoLast

NextMerge ==
    \E title \in BookTitles, highlights \in BookHighlights :
        ImportBook(title, highlights)

SpecMerge == InitImported /\ [][NextMerge]_vars

\* Storage calls made while localStorage is full.
QuotaAdd ==
    /\ StorageCallWith("add", nextId, NewArticleIn(build, nextId), FALSE)
    /\ nextId' = nextId + 1

QuotaUpdate(id, updates) ==
    /\ id \in 1..(nextId - 1)
    /\ StorageCallWith("update", id, updates, FALSE)
    /\ UNCHANGED nextId

QuotaDelete(id) ==
    /\ id \in 1..(nextId - 1)
    /\ StorageCallWith("delete", id, <<>>, FALSE)
    /\ UNCHANGED nextId

NextQuota ==
    \/ Next
    \/ QuotaAdd
    \/ \E id \in Ids, updates \in Updates : QuotaUpdate(id, updates)
    \/ \E id \in Ids : QuotaDelete(id)

SpecQuota == Init /\ [][NextQuota]_vars

\* Every copy of the web application (src/reader.js twice, src/app.js).
InitBuilds == \E b \in Builds : InitWeb(b)
SpecBuilds == InitBuilds /\ [][NextRestart]_vars

----------------------------------------------------------------------------
\* The tag normalizer, FirebaseService.normalizeExistingTags (src/reader.js
\* 848-908), over collections whose tags come in any casing.

\* Tag lists as stored articles carry them: empty, one tag in any casing, or
\* two tags of one or of two lowercase groups.
TagLists ==
    {<<>>} \cup {<<t>> : t \in TagUniverse}
           \cup {<<"ux", "Ux">>, <<"js", "UX">>}

\* A stored article of the given id: with a tag list, or without the field.
TaggedArticles(id) ==
    {[id |-> id, isRead |-> FALSE, dateAdded |-> id, tags |-> l] : l \in TagLists}
    \cup {[id |-> id, isRead |-> FALSE, dateAdded |-> id]}

\* Collections of exactly n articles, newest (highest id) first.
RECURSIVE Collections(_)
Collections(n) ==
    IF n = 0 THEN {<<>>}
    ELSE {<<a>> \o c : a \in TaggedArticles(n), c \in Collections(n - 1)}

InitTags ==
    /\ build = "reader_a"
    /\ isConfigured = FALSE
    /\ listenerFired = FALSE
    /\ currentUser = NoUser
    /\ unsubscribeSnapshot = 0
    /\ subs = {}
    /\ nextHandle = 1
    /\ \E n \in 0..MaxTagArticles : localArticles \in Collections(n)
    /\ remote = [u \in Users |-> NoDocs]
    /\ ops = {}
    /\ nextId = Len(localArticles) + 1
    /\ calls = 0
    /\ ext = NoExt
    /\ ui = NoUi
    /\ last = NoLast

\* FirebaseService.init runs the normalizer once at every start of the app.
NormalizeExistingTags ==
    LET run == normalizeExistingTags(localArticles) IN
    /\ localArticles' = run.stored
    /\ last' = [NoLast EXCEPT !.type = "normalize", !.writes = run.writes,
                              !.streak = IF last.type = "normalize" THEN 2 ELSE 1,
                              !.prevWrites =
                                  IF last.type = "normalize" THEN last.writes ELSE 0]
    /\ UNCHANGED <<ui, ext, build, isConfigured, listenerFired, currentUser,
                   unsubscribeSnapshot, subs, nextHandle, remote, ops, nextId, calls>>

\* An edit between two runs: the add form stores an article whose tags were
\* typed in any casing (tags are lowercased by handleAddArticle).
AddTaggedArticle(typed) ==
    /\ Len(localArticles) < MaxTagArticles
    /\ localArticles' = LocalStorage_addArticle(localArticles,
           [id |-> nextId, isRead |-> FALSE, dateAdded |-> nextId,
            tags |-> [k \in 1..Len(typed) |-> ToLowerCase(typed[k])]])
    /\ nextId' = nextId + 1
    /\ last' = [NoLast EXCEPT !.type = "call", !.kind = "add", !.id = nextId,
                              !.result = "true"]
    /\ UNCHANGED <<ui, ext, build, isConfigured, listenerFired, currentUser,
                   unsubscribeSnapshot, subs, nextHandle, remote, ops, calls>>

NextTags ==
    \/ NormalizeExistingTags
    \/ \E typed \in TagLists : AddTaggedArticle(typed)

SpecTags == InitTags /\ [][NextTags]_vars

----------------------------------------------------------------------------
\* The Chrome extension: the popup, in its two versions (src/unnamed/part_001),
\* and the background script (src/chrome-extension/background.js). Both keep
\* articles and the session in chrome.storage.local and write to Firestore
\* through the REST commit endpoint.

Popups == {"popup_1", "popup_2"}
Urls == {"a", "b"}

\* What the commit endpoint answers: response.ok, response.status and the
\* error.message of the JSON body (empty when the body carries none). The
\* error messages are lists of words.
Responses ==
    {[ok |-> TRUE,  status |-> "200", message |-> <<>>],
     [ok |-> FALSE, status |-> "401", message |-> <<>>],
     [ok |-> FALSE, status |-> "401",
      message |-> <<"Request", "had", "invalid", "authentication", "credentials.">>],
     [ok |-> FALSE, status |-> "403",
      message |-> <<"Missing", "or", "insufficient", "permissions.">>],
     [ok |-> FALSE, status |-> "500", message |-> <<>>]}

\* new Error(errorData.error?.message || `Error: ${response.status}`)
ErrorMessage(response) ==
    IF response.message # <<>> THEN response.message
    ELSE <<"Error:", response.status>>

\* error.message.includes(word)
Includes(message, word) == \E k \in 1..Len(message) : message[k] = word

\* The popup's test for an expired session.
IsAuthError(message) ==
    \/ Includes(message, "401")
    \/ Includes(message, "403")
    \/ Includes(message, "UNAUTHENTICATED")

\* The article object the popup and the context-menu handler build.
ExtArticle(t, url) ==
    [id |-> t, url |-> url, isRead |-> FALSE, dateAdded |-> t, tags |-> <<>>,
     highlights |-> <<>>, folderId |-> "null"]

\* The document fields saveToFirestore sends: highlights and folderId are
\* written as [] and null whatever the article holds.
ExtFields(article) ==
    [url |-> article["url"], isRead |-> article["isRead"],
     dateAdded |-> article["dateAdded"], tags |-> article["tags"],
     highlights |-> <<>>, folderId |-> "null"]

\* saveToPending / saveToLocal on the list under one key: a duplicate url
\* rejects, otherwise the article is put in front and the list stored.
SaveToList(articles, article) ==
    IF \E k \in 1..Len(articles) : articles[k]["url"] = article["url"]
    THEN [ok |-> FALSE, articles |-> articles,
          message |-> <<"Article", "already", "saved">>]
    ELSE [ok |-> TRUE, articles |-> <<article>> \o articles, message |-> <<>>]

\* tryRefreshToken(): a silent flow that succeeds stores a new token and the
\* session; one that fails changes nothing.
tryRefreshToken(e, succeeds) ==
    IF succeeds
    THEN [e EXCEPT !.idToken = "t1", !.auth = [user |-> e.user, idToken |-> "t1"]]
    ELSE e

\* currentUser = null; idToken = null; await saveAuthState(null)
ClearSession(e) == [e EXCEPT !.user = NoUser, !.idToken = "none", !.auth = NoAuth]

\* What one run of a save handler did, before anything happened.
NoRun(e, coll) ==
    [ext |-> e, coll |-> coll, trace |-> <<>>, result |-> "", attempts |-> 0,
     refreshes |-> 0, refreshed |-> FALSE, retryOk |-> FALSE, reason |-> ""]

\* await saveToFirestore(article) answered by response: the write is issued,
\* and applied when the answer is ok.
Attempt(run, article, response) ==
    [run EXCEPT !.trace = @ \o <<"remote">>,
                !.attempts = @ + 1,
                !.coll = IF response.ok
                         THEN SetDoc(@, article["id"], ExtFields(article))
                         ELSE @]

\* handleSaveArticle of the first popup script (part_001 396-485).
HandleSaveArticle_1(e, coll, article, r1, refreshOk, r2) ==
    IF e.user = NoUser \/ e.idToken = "none"
    THEN [NoRun(e, coll) EXCEPT !.result = "error"]
    ELSE
    LET first == Attempt(NoRun(e, coll), article, r1) IN
    IF r1.ok THEN [first EXCEPT !.result = "success"]
    ELSE
    LET failed == [first EXCEPT !.reason = r1.status] IN
    IF IsAuthError(ErrorMessage(r1))
    THEN LET tried == [failed EXCEPT !.trace = @ \o <<"refresh">>,
                                     !.refreshes = @ + 1,
                                     !.refreshed = refreshOk,
                                     !.ext = tryRefreshToken(e, refreshOk)]
             retried == Attempt(tried, article, r2)
         IN  IF refreshOk /\ r2.ok
             THEN [retried EXCEPT !.retryOk = TRUE, !.result = "success"]
             ELSE [(IF refreshOk THEN retried ELSE tried) EXCEPT
                      !.ext = ClearSession(@), !.result = "error"]
    ELSE IF Includes(ErrorMessage(r1), "already")
         THEN [failed EXCEPT !.result = "warning"]
         ELSE [failed EXCEPT !.result = "error"]

\* await saveToPending(article) inside a run; a rejection carries its message.
Pending(run, article) ==
    LET saved == SaveToList(run.ext.store[PendingKey], article) IN
    [ok |-> saved.ok, message |-> saved.message,
     run |-> IF saved.ok
             THEN [run EXCEPT !.ext.store[PendingKey] = saved.articles,
                              !.trace = @ \o <<"local">>]
             ELSE run]

\* handleSaveArticle of the second popup script (part_001 919-1004).
HandleSaveArticle_2(e, coll, article, r1) ==
    LET signedIn == e.user # NoUser /\ e.idToken # "none"
        first    == IF signedIn THEN Attempt(NoRun(e, coll), article, r1)
                    ELSE Pending(NoRun(e, coll), article).run
        thrown   == IF signedIn THEN ~r1.ok
                    ELSE ~Pending(NoRun(e, coll), article).ok
        message  == IF signedIn THEN ErrorMessage(r1)
                    ELSE Pending(NoRun(e, coll), article).message
        failed   == [first EXCEPT !.reason = IF signedIn THEN r1.status ELSE ""]
    IN
    IF ~thrown
    THEN [first EXCEPT !.result = IF signedIn THEN "success" ELSE "warning"]
    ELSE IF IsAuthError(message)
    THEN LET cleared == [failed EXCEPT !.ext = ClearSession(@)]
             fallback == Pending(cleared, article)
         IN  [fallback.run EXCEPT !.result = IF fallback.ok THEN "warning" ELSE "throw"]
    ELSE IF Includes(message, "already")
    THEN [failed EXCEPT !.result = "warning"]
    ELSE LET fallback == Pending(failed, article)
         IN  [fallback.run EXCEPT !.result = IF fallback.ok THEN "warning" ELSE "error"]

\* saveArticle of the background script (background.js 88-109): saveToLocal
\* first; then, with a stored session whose token has not expired, one
\* saveToFirestore whose failure is only logged.
saveArticle(e, coll, article, expired, response) ==
    LET saved == SaveToList(e.store[BackgroundKey], article) IN
    IF ~saved.ok THEN [NoRun(e, coll) EXCEPT !.result = "error"]
    ELSE
    LET local == [NoRun(e, coll) EXCEPT
                     !.ext.store[BackgroundKey] = saved.articles,
                     !.trace = <<"local">>,
                     !.result = "success"]
    IN  IF e.auth.user # NoUser /\ e.auth.idToken # "none" /\ ~expired
        THEN LET sent == Attempt(local, [article EXCEPT !["tags"] = <<>>], response)
             IN  [sent EXCEPT !.reason = IF response.ok THEN "" ELSE response.status]
        ELSE local

InitExt ==
    /\ build \in Popups
    /\ isConfigured = TRUE
    /\ listenerFired = FALSE
    /\ currentUser = NoUser
    /\ unsubscribeSnapshot = 0
    /\ subs = {}
    /\ nextHandle = 1
    /\ localArticles = <<>>
    /\ remote = [u \in Users |-> NoDocs]
    /\ ops = {}
    /\ nextId = 1
    /\ calls = 0
    /\ ext = NoExt
    /\ ui = NoUi
    /\ last = NoLast

\* handleSignIn: the Google flow, then the session is kept and stored.
ExtSignIn(u) ==
    /\ ext.user = NoUser
    /\ ext' = [ext EXCEPT !.user = u, !.idToken = "t0",
                          !.auth = [user |-> u, idToken |-> "t0"]]
    /\ last' = [NoLast EXCEPT !.type = "signin", !.uid = u]
    /\ UNCHANGED <<ui, build, isConfigured, listenerFired, currentUser,
                   unsubscribeSnapshot, subs, nextHandle, localArticles, remote,
                   ops, nextId, calls>>

\* handleSignOut
ExtSignOut ==
    /\ ext.user # NoUser
    /\ ext' = ClearSession(ext)
    /\ last' = [NoLast EXCEPT !.type = "signout"]
    /\ UNCHANGED <<ui, build, isConfigured, listenerFired, currentUser,
                   unsubscribeSnapshot, subs, nextHandle, localArticles, remote,
                   ops, nextId, calls>>

\* What a finished save handler leaves: the extension's state, the user's
\* documents, and the record of the run.
ExtSaved(type, uid, article, run) ==
    /\ calls < MaxCalls
    /\ calls' = calls + 1
    /\ nextId' = nextId + 1
    /\ ext' = run.ext
    /\ remote' = IF uid # NoUser THEN [remote EXCEPT ![uid] = run.coll] ELSE remote
    /\ last' = [NoLast EXCEPT !.type = type, !.kind = "add", !.id = article["id"],
                              !.payload = article, !.uid = uid,
                              !.result = run.result, !.reason = run.reason,
                              !.remoteIssued = run.attempts > 0,
                              !.attempts = run.attempts, !.trace = run.trace,
                              !.refreshes = run.refreshes,
                              !.refreshed = run.refreshed,
                              !.retryOk = run.retryOk]
    /\ UNCHANGED <<ui, build, isConfigured, listenerFired, currentUser,
                   unsubscribeSnapshot, subs, nextHandle, localArticles, ops>>

\* The popup's save form is submitted.
PopupSave(url, r1, refreshOk, r2) ==
    LET article == ExtArticle(nextId, url)
        uid     == ext.user
        coll    == IF uid # NoUser THEN remote[uid] ELSE NoDocs
    IN  ExtSaved("popup", uid, article,
                 IF build = "popup_1"
                 THEN HandleSaveArticle_1(ext, coll, article, r1, refreshOk, r2)
                 ELSE HandleSaveArticle_2(ext, coll, article, r1))

\* The context menu entry is clicked; the stored token may have expired by now.
BackgroundSave(url, expired, response) ==
    LET article == ExtArticle(nextId, url)
        uid     == ext.auth.user
        coll    == IF uid # NoUser THEN remote[uid] ELSE NoDocs
    IN  ExtSaved("background", uid, article,
                 saveArticle(ext, coll, article, expired, response))

NextExt ==
    \/ \E u \in Users : ExtSignIn(u)
    \/ ExtSignOut
    \/ \E url \in Urls, r1 \in Responses, refreshOk \in BOOLEAN, r2 \in Responses :
          PopupSave(url, r1, refreshOk, r2)
    \/ \E url \in Urls, expired \in BOOLEAN, response \in Responses :
          BackgroundSave(url, expired, response)

SpecExt == InitExt /\ [][NextExt]_vars

\* Two context-menu saves can overlap: saveToLocal reads the list with
\* chrome.storage.local.get, and only the callback, a later task, checks for a
\* duplicate, puts the article in front of the list it was handed and stores it.

\* saveToLocal is called: chrome.storage.local.get reads the list.
SaveToLocalRead(url) ==
    /\ calls < MaxCalls
    /\ calls' = calls + 1
    /\ nextId' = nextId + 1
    /\ ops' = ops \cup {[kind |-> "saveToLocal", id |-> nextId,
                         payload |-> ExtArticle(nextId, url),
                         read |-> ext.store[BackgroundKey]]}
    /\ last' = [NoLast EXCEPT !.type = "saveToLocal.get", !.kind = "add",
                              !.id = nextId, !.payload = ExtArticle(nextId, url)]
    /\ UNCHANGED <<ui, ext, build, isConfigured, listenerFired, currentUser,
                   unsubscribeSnapshot, subs, nextHandle, localArticles, remote>>

\* The get callback and the rest of saveArticle, on the list that was read; a
\* rejected duplicate stores nothing.
SaveToLocalWrite(op, expired, response) ==
    LET uid  == ext.auth.user
        coll == IF uid # NoUser THEN remote[uid] ELSE NoDocs
        run  == saveArticle([ext EXCEPT !.store[BackgroundKey] = op.read], coll,
                            op.payload, expired, response)
    IN
    /\ op \in ops
    /\ ops' = ops \ {op}
    /\ ext' = IF run.result = "error" THEN ext ELSE run.ext
    /\ remote' = IF uid # NoUser THEN [remote EXCEPT ![uid] = run.coll] ELSE remote
    /\ last' = [NoLast EXCEPT !.type = "saveToLocal", !.kind = "add",
                              !.id = op.id, !.payload = op.payload, !.uid = uid,
                              !.result = run.result, !.reason = run.reason,
                              !.remoteIssued = run.attempts > 0,
                              !.attempts = run.attempts, !.trace = run.trace]
    /\ UNCHANGED <<ui, build, isConfigured, listenerFired, currentUser,
                   unsubscribeSnapshot, subs, nextHandle, localArticles, nextId,
                   calls>>

NextRace ==
    \/ \E u \in Users : ExtSignIn(u)
    \/ ExtSignOut
    \/ \E url \in Urls : SaveToLocalRead(url)
    \/ \E op \in ops, expired \in BOOLEAN, response \in Responses :
          SaveToLocalWrite(op, expired, response)

SpecRace == InitExt /\ [][NextRace]_vars

----------------------------------------------------------------------------
\* ContentFetcher.fetchHTML (src/content-fetcher.js 17-53).

\* corsProxies.length
ProxyCount == 3
\* html.length > 500
MinHtmlLength == 500

\* What one proxy does with the request: the 10 s timer aborts it, it answers
\* 404 with a page that looks like HTML, or it answers 200 with a body, of
\* which the model keeps whether it contains '<', its length, and which proxy
\* sent it.
ProxyOutcomes(i) ==
    {[timeout |-> TRUE, status |-> 0, html |-> [hasTag |-> FALSE, length |-> 0, proxy |-> i]],
     [timeout |-> FALSE, status |-> 404,
      html |-> [hasTag |-> TRUE, length |-> MinHtmlLength + 1, proxy |-> i]]}
    \cup {[timeout |-> FALSE, status |-> 200,
           html |-> [hasTag |-> tag, length |-> len, proxy |-> i]] :
             tag \in BOOLEAN, len \in {0, MinHtmlLength, MinHtmlLength + 1}}

\* response.ok
ResponseOk(outcome) == outcome.status >= 200 /\ outcome.status <= 299

\* Mutant of HtmlAccepted: any body of a 2xx response is taken.
HtmlAccepted_Unchecked(outcome) == ~outcome.timeout /\ ResponseOk(outcome)

\* The try block reaches "return html": no abort, response.ok, and
\* html && html.includes('<') && html.length > 500.
HtmlAccepted(outcome) ==
    /\ ~outcome.timeout
    /\ ResponseOk(outcome)
    /\ outcome.html.length > 0
    /\ outcome.html.hasTag
    /\ outcome.html.length > MinHtmlLength

\* for (let i = 0; i < corsProxies.length; i++) { try ... catch { continue } }
\* and the throw after the loop; tried lists the proxies asked, in order.
RECURSIVE fetchHTML(_, _, _)
fetchHTML(outcomes, i, tried) ==
    IF i > ProxyCount
    THEN [result |-> "throw", html |-> <<>>, tried |-> tried]
    ELSE IF HtmlAccepted(outcomes[i])
         THEN [result |-> "return", html |-> outcomes[i].html, tried |-> Append(tried, i)]
         ELSE fetchHTML(outcomes, i + 1, Append(tried, i))

\* One call of fetchHTML, the proxies behaving in any way.
FetchHTML(outcomes) ==
    LET run == fetchHTML(outcomes, 1, <<>>) IN
    /\ last' = [NoLast EXCEPT !.type = "fetch", !.result = run.result,
                              !.trace = run.tried,
                              !.payload = [outcomes |-> outcomes, html |-> run.html]]
    /\ UNCHANGED <<ui, ext, build, isConfigured, listenerFired, currentUser,
                   unsubscribeSnapshot, subs, nextHandle, localArticles, remote,
                   ops, nextId, calls>>

NextFetch ==
    \E o1 \in ProxyOutcomes(1), o2 \in ProxyOutcomes(2), o3 \in ProxyOutcomes(3) :
        FetchHTML(<<o1, o2, o3>>)

SpecFetch == Init /\ [][NextFetch]_vars

----------------------------------------------------------------------------
\* extractContent: ContentFetcher's (src/content-fetcher.js 113-235) and
\* Reader's (src/reader.js 405-489). A document is the list of its paragraphs,
\* each one sentence, of which the model keeps the length in characters.

Extractors == {"ContentFetcher", "Reader"}
ParagraphLengths == {10, 25, 40, 60, 250}

RECURSIVE Documents(_)
Documents(n) ==
    IF n = 0 THEN {<<>>}
    ELSE Documents(n - 1) \cup
         {Append(d, len) : d \in {x \in Documents(n - 1) : Len(x) = n - 1},
                           len \in ParagraphLengths}

RECURSIVE SumOf(_)
SumOf(lengths) == IF lengths = <<>> THEN 0 ELSE Head(lengths) + SumOf(Tail(lengths))

\* The paragraphs the structural pass keeps: ContentFetcher skips text.length < 30,
\* Reader keeps text.length > 20.
KeptParagraphs(which, doc) ==
    SelectSeq(doc, LAMBDA len : IF which = "ContentFetcher" THEN ~(len < 30) ELSE len > 20)

\* paragraphs.join(' ').length in ContentFetcher, paragraphs.join('').length in Reader
JoinedLength(which, kept) ==
    IF which = "ContentFetcher" /\ Len(kept) > 0
    THEN SumOf(kept) + (Len(kept) - 1)
    ELSE SumOf(kept)

\* ContentFetcher's sentences.forEach: sentences under 20 characters are
\* skipped, the others appended with a space, and a chunk is pushed, trimmed,
\* once it is longer than 200.
RECURSIVE ChunkLoop(_, _, _)
ChunkLoop(sentences, chunks, currentChunk) ==
    IF sentences = <<>> THEN [chunks |-> chunks, currentChunk |-> currentChunk]
    ELSE IF Head(sentences) < 20
         THEN ChunkLoop(Tail(sentences), chunks, currentChunk)
         ELSE LET grown == currentChunk + Head(sentences) + 1 IN
              IF grown > 200
              THEN ChunkLoop(Tail(sentences), Append(chunks, grown - 1), 0)
              ELSE ChunkLoop(Tail(sentences), chunks, grown)

\* The low-yield fallback: the pieces the returned text is joined from.
\* ContentFetcher pushes the last chunk only when it is longer than 50; Reader
\* keeps the sentences longer than 30.
FallbackPieces(which, sentences) ==
    IF which = "ContentFetcher"
    THEN LET loop == ChunkLoop(sentences, <<>>, 0) IN
         IF loop.currentChunk > 50
         THEN Append(loop.chunks, loop.currentChunk - 1)
         ELSE loop.chunks
    ELSE SelectSeq(sentences, LAMBDA len : len > 30)

\* extractContent from the content node on: the pieces of the returned text
\* (an empty list is the empty string) and the path that produced them.
extractContent(which, doc) ==
    LET kept == KeptParagraphs(which, doc) IN
    IF JoinedLength(which, kept) < 500
    THEN [path |-> "fallback", pieces |-> FallbackPieces(which, doc)]
    ELSE [path |-> "structural", pieces |-> kept]

ExtractContent(which, doc) ==
    /\ last' = [NoLast EXCEPT !.type = "extract", !.kind = which,
                              !.payload = doc,
                              !.result = extractContent(which, doc).path,
                              !.trace = extractContent(which, doc).pieces]
    /\ UNCHANGED <<ui, ext, build, isConfigured, listenerFired, currentUser,
                   unsubscribeSnapshot, subs, nextHandle, localArticles, remote,
                   ops, nextId, calls>>

NextExtract ==
    \E which \in Extractors, doc \in Documents(MaxParagraphs) : ExtractContent(which, doc)

SpecExtract == Init /\ [][NextExtract]_vars

----------------------------------------------------------------------------
\* The remote encoding: an article written by one of the encoders
\* (FirebaseService.addArticle of a web copy, saveToFirestore of the popup or
\* of the background script) and read back by a web copy's snapshot callback.

Encoders == Builds \cup {"popup", "background"}

\* The tags the add form and the popup hand over (lowercased).
TypedTags == {<<>>, <<"ux">>, <<"js">>, <<"ux", "js">>}

\* The articles the callers of an encoder build.
ArticlesFor(enc) ==
    CASE enc = "app"        -> {NewArticleIn("app", 1)}
      [] enc = "popup"      -> {[ExtArticle(1, url) EXCEPT !["tags"] = tags] :
                                   url \in Urls, tags \in TypedTags}
      [] enc = "background" -> {ExtArticle(1, url) : url \in Urls}
      [] OTHER              -> {[NewArticle(1) EXCEPT !["tags"] = tags,
                                                      !["folderId"] = folder] :
                                   tags \in TypedTags, folder \in {"null", "f1"}}

\* The document fields the encoder writes for the article.
Encode(enc, article) ==
    CASE enc = "popup"      -> ExtFields(article)
      [] enc = "background" -> ExtFields([article EXCEPT !["tags"] = <<>>])
      [] OTHER              -> AddFields(enc, article)

\* One article written and read back.
RoundTrip(enc, dec, article) ==
    /\ last' = [NoLast EXCEPT
                  !.type = "roundtrip", !.kind = enc, !.reason = dec,
                  !.payload = article,
                  !.trace = <<DecodeDoc(dec, article["id"], Encode(enc, article), nextId)>>]
    /\ UNCHANGED <<ui, ext, build, isConfigured, listenerFired, currentUser,
                   unsubscribeSnapshot, subs, nextHandle, localArticles, remote,
                   ops, nextId, calls>>

NextCodec ==
    \E enc \in Encoders, dec \in Builds :
        \E article \in ArticlesFor(enc) : RoundTrip(enc, dec, article)

SpecCodec == Init /\ [][NextCodec]_vars

----------------------------------------------------------------------------
\* Folders (src/reader.js 1576-1636, 2071-2126): FolderManager keeps the list
\* under its own localStorage key; UI.currentFolderFilter is the folder the
\* sidebar shows, and handleAddArticle files a new article under it.

\* The ids new Folder() gives out, in the order they are made.
FolderIds == <<"f1", "f2">>

\* The folders made so far (deleted ones included): the next id is fresh.
FoldersMade == Len(ui.folders) + ui.foldersDeleted

\* folders.push(folder); saveFolders(folders)
FolderManager_addFolder(folders, id) == Append(folders, id)

\* saveFolders(getFolders().filter(f => f.id !== id))
FolderManager_deleteFolder(folders, id) == SelectSeq(folders, LAMBDA f : f # id)

FolderSet(folders) == {folders[k] : k \in 1..Len(folders)}

\* handleAddFolder with a name given at the prompt.
HandleAddFolder ==
    /\ FoldersMade < Len(FolderIds)
    /\ ui' = [ui EXCEPT !.folders =
                 FolderManager_addFolder(@, FolderIds[FoldersMade + 1])]
    /\ last' = [NoLast EXCEPT !.type = "addFolder",
                              !.reason = FolderIds[FoldersMade + 1]]
    /\ UNCHANGED <<ext, build, isConfigured, listenerFired, currentUser,
                   unsubscribeSnapshot, subs, nextHandle, localArticles, remote,
                   ops, nextId, calls>>

\* handleFolderClick(folderId) on a folder of the sidebar.
HandleFolderClick(id) ==
    /\ id \in FolderSet(ui.folders)
    /\ ui' = [ui EXCEPT !.currentFolderFilter = id]
    /\ last' = [NoLast EXCEPT !.type = "folderClick", !.reason = id]
    /\ UNCHANGED <<ext, build, isConfigured, listenerFired, currentUser,
                   unsubscribeSnapshot, subs, nextHandle, localArticles, remote,
                   ops, nextId, calls>>

\* handleDeleteFolder(id): after the confirm, the folder is removed from the
\* list and the filter is reset if it showed that folder; the articles are not
\* touched. A cancelled confirm does nothing.
HandleDeleteFolder(id, confirmed) ==
    /\ id \in FolderSet(ui.folders)
    /\ ui' = IF confirmed
             THEN [ui EXCEPT
                     !.folders = FolderManager_deleteFolder(@, id),
                     !.foldersDeleted = @ + 1,
                     !.currentFolderFilter = IF @ = id THEN "null" ELSE @]
             ELSE ui
    /\ last' = [NoLast EXCEPT !.type = "deleteFolder", !.reason = id,
                              !.result = IF confirmed THEN "confirmed"
                                         ELSE "cancelled"]
    /\ UNCHANGED <<ext, build, isConfigured, listenerFired, currentUser,
                   unsubscribeSnapshot, subs, nextHandle, localArticles, remote,
                   ops, nextId, calls>>

\* handleAddArticle: the new article is filed under the current folder filter.
AddArticleInFolder ==
    /\ StorageCall("add", nextId,
                   [NewArticle(nextId) EXCEPT !["folderId"] = ui.currentFolderFilter])
    /\ nextId' = nextId + 1

NextFolders ==
    \/ HandleAddFolder
    \/ \E id \in FolderSet(ui.folders) : HandleFolderClick(id)
    \/ \E id \in FolderSet(ui.folders), confirmed \in BOOLEAN :
          HandleDeleteFolder(id, confirmed)
    \/ AddArticleInFolder
    \/ \E id \in Ids : DeleteArticle(id)

SpecFolders == Init /\ [][NextFolders]_vars

----------------------------------------------------------------------------
\* ReadingAnalytics (src/reader.js 1341-1391): one current session in memory,
\* the session history under localStorage['readitlater_sessions'].

\* if (sessions.length > 100) sessions.shift()
SessionCap == 100

\* The durations Date.now() - startTime of the model's sessions.
Durations == {1, 5}

\* The functions the Storage object has (src/reader.js 1154-1196).
StorageMembers == {"getArticles", "addArticle", "updateArticle", "deleteArticle"}

\* saveSession(session): push, drop the oldest beyond the cap, store.
saveSession(sessions, session) ==
    LET pushed == Append(sessions, session) IN
    IF Len(pushed) > SessionCap THEN Tail(pushed) ELSE pushed

\* updateArticleStats(articleId, duration): the article found in the parsed
\* list gets lastReadAt, readCount + 1 and totalReadTime + duration, and the
\* list goes to Storage.saveArticles. Calling a function the Storage object
\* does not have throws a TypeError, and then nothing is stored.
updateArticleStats(stored, articleId, duration, now) ==
    LET index == FindIndex(stored, articleId) IN
    IF index = 0 THEN [stored |-> stored, threw |-> FALSE]
    ELSE IF "saveArticles" \notin StorageMembers
         THEN [stored |-> stored, threw |-> TRUE]
         ELSE [stored |-> saveArticles(stored,
                   [stored EXCEPT ![index] =
                       Spread(@, [lastReadAt |-> now,
                                  readCount |-> OrElse(@, "readCount", 0) + 1,
                                  totalReadTime |-> OrElse(@, "totalReadTime", 0)
                                                    + duration])]),
               threw |-> FALSE]

\* startSession(articleId)
StartSession(articleId) ==
    /\ Len(ui.readingSessions) < MaxSessions
    /\ ui' = [ui EXCEPT !.currentSession =
                 <<[articleId |-> articleId, duration |-> 0]>>]
    /\ last' = [NoLast EXCEPT !.type = "startSession", !.id = articleId]
    /\ UNCHANGED <<ext, build, isConfigured, listenerFired, currentUser,
                   unsubscribeSnapshot, subs, nextHandle, localArticles, remote,
                   ops, nextId, calls>>

\* endSession(): with a current session, the duration is set, the session is
\* saved to the history, the article's stats are updated and the current
\* session is cleared; an exception on the way leaves the later steps undone.
\* Without a current session nothing happens.
EndSession(duration) ==
    LET open    == ui.currentSession # <<>>
        session == [ui.currentSession[1] EXCEPT !.duration = duration]
        stats   == updateArticleStats(localArticles, session.articleId, duration,
                                      nextId)
    IN
    /\ Len(ui.readingSessions) < MaxSessions
    /\ ui' = IF ~open THEN ui
             ELSE [ui EXCEPT
                     !.readingSessions = saveSession(@, session),
                     !.currentSession = IF stats.threw THEN <<session>> ELSE <<>>]
    /\ localArticles' = IF open THEN stats.stored ELSE localArticles
    /\ last' = [NoLast EXCEPT !.type = "endSession",
                              !.id = IF open THEN session.articleId ELSE 0,
                              !.n = duration,
                              !.result = IF ~open THEN "none"
                                         ELSE IF stats.threw THEN "threw"
                                         ELSE "done"]
    /\ UNCHANGED <<ext, build, isConfigured, listenerFired, currentUser,
                   unsubscribeSnapshot, subs, nextHandle, remote, ops, nextId,
                   calls>>

NextSessions ==
    \/ AddArticle
    \/ \E id \in Ids : DeleteArticle(id)
    \/ \E id \in Ids : StartSession(id)
    \/ \E duration \in Durations : EndSession(duration)

SpecSessions == Init /\ [][NextSessions]_vars

----------------------------------------------------------------------------
\* Reading progress. The article's readProgress is written to Firestore by
\* FirebaseService.addArticle and read back by the snapshot callback; the
\* function that saves the progress of the open reader is not part of the
\* sources at hand and is taken from its description: a percentage not above
\* the stored one is dropped, a higher one goes through Storage.updateArticle.

\* The percentages the reader reports.
Percentages == {20, 50}

\* article.readProgress || 0 of the cached article with the given id.
ReadProgressOf(articles, id) ==
    OrElse(articles[FindIndex(articles, id)], "readProgress", 0)

\* Whether saveReadProgress(id, percent) writes.
saveReadProgress(stored, id, percent) ==
    /\ id \in IdsOf(stored)
    /\ percent > ReadProgressOf(stored, id)

SaveReadProgress(id, percent) ==
    /\ id \in 1..(nextId - 1)
    /\ IF saveReadProgress(localArticles, id, percent)
       THEN StorageCall("update", id, [readProgress |-> percent])
       ELSE /\ last' = [NoLast EXCEPT !.type = "progress", !.id = id,
                                      !.n = percent]
            /\ UNCHANGED <<ui, ext, build, isConfigured, listenerFired,
                           currentUser, unsubscribeSnapshot, subs, nextHandle,
                           localArticles, remote, ops, calls>>
    /\ UNCHANGED nextId

NextProgress ==
    \/ \E u \in Users \cup {NoUser} : AuthStateChanged(u)
    \/ \E s \in subs : Snapshot(s)
    \/ AddArticle
    \/ \E id \in Ids, percent \in Percentages : SaveReadProgress(id, percent)
    \/ \E op \in ops : RemoteResolve(op)
    \/ \E op \in ops, reason \in RejectReasons : RemoteReject(op, reason)

SpecProgress == Init /\ [][NextProgress]_vars

----------------------------------------------------------------------------
\* The reader view (src/reader.js 348-403, 498-504, 743-749, 2864-2870):
\* Reader.currentArticle is the article the reader was last opened on, and a
\* content fetch that finishes writes to whatever article that is by then.

\* The text a fetch of the article's url extracts.
ContentOf(id) == <<"text of 1", "text of 2", "text of 3", "text of 4">>[id]

\* article.content && article.content.trim()
HasContent(article) == OrElse(article, "content", "") # ""

\* handleOpenReader(id) and Reader.open(article): the article becomes the
\* current one; its content is shown when it has some, otherwise the loading
\* state is shown and a fetch of its url starts. The overlay covers the list,
\* so the reader is opened from the list only while it is closed.
OpenReader(id) ==
    LET article == localArticles[FindIndex(localArticles, id)] IN
    /\ id \in IdsOf(localArticles)
    /\ ~ui.isOpen
    /\ ui' = [ui EXCEPT
                !.isOpen = TRUE,
                !.currentArticle = <<article>>,
                !.highlights = OrElse(article, "highlights", <<>>),
                !.view = IF HasContent(article) THEN "article" ELSE "loading",
                !.shown = IF HasContent(article) THEN article["content"] ELSE @,
                !.fetches = IF HasContent(article) THEN @ ELSE @ \cup {id}]
    /\ last' = [NoLast EXCEPT !.type = "open", !.id = id]
    /\ UNCHANGED <<ext, build, isConfigured, listenerFired, currentUser,
                   unsubscribeSnapshot, subs, nextHandle, localArticles, remote,
                   ops, nextId, calls>>

\* Reader.close(): the overlay is hidden; the current article and a fetch in
\* flight stay as they are.
CloseReader ==
    /\ ui.isOpen
    /\ ui' = [ui EXCEPT !.isOpen = FALSE]
    /\ last' = [NoLast EXCEPT !.type = "close"]
    /\ UNCHANGED <<ext, build, isConfigured, listenerFired, currentUser,
                   unsubscribeSnapshot, subs, nextHandle, localArticles, remote,
                   ops, nextId, calls>>

\* The article a finished fetch writes to: this.currentArticle.
FetchTarget(current, requested) == current[1]["id"]

\* The fetch started for an article finishes with extracted content:
\* this.currentArticle.content = content; this.saveArticle() (the call
\* Storage.updateArticle(this.currentArticle.id, {content, highlights}));
\* this.showArticleView(content).
FetchSucceeds(requested) ==
    LET content == ContentOf(requested)
        target  == FetchTarget(ui.currentArticle, requested)
    IN
    /\ requested \in ui.fetches
    /\ StorageCallFrom("update", target,
                       [content |-> content, highlights |-> ui.highlights], TRUE,
                       [ui EXCEPT
                          !.fetches = @ \ {requested},
                          !.currentArticle =
                              IF target = @[1]["id"]
                              THEN <<Spread(@[1], [content |-> content])>> ELSE @,
                          !.view = "article",
                          !.shown = IF target = ui.currentArticle[1]["id"]
                                    THEN content ELSE @])
    /\ UNCHANGED nextId

\* The fetch fails (network, !response.ok, too little content): the input view
\* is shown.
FetchFails(requested) ==
    /\ requested \in ui.fetches
    /\ ui' = [ui EXCEPT !.fetches = @ \ {requested}, !.view = "input"]
    /\ last' = [NoLast EXCEPT !.type = "fetchFailed", !.id = requested]
    /\ UNCHANGED <<ext, build, isConfigured, listenerFired, currentUser,
                   unsubscribeSnapshot, subs, nextHandle, localArticles, remote,
                   ops, nextId, calls>>

\* Two articles saved earlier; the second may have its content already.
InitReader ==
    /\ build = "reader_a"
    /\ isConfigured \in BOOLEAN
    /\ listenerFired = FALSE
    /\ currentUser = NoUser
    /\ unsubscribeSnapshot = 0
    /\ subs = {}
    /\ nextHandle = 1
    /\ \E stored \in BOOLEAN :
          localArticles =
              <<IF stored THEN Spread(NewArticle(2), [content |-> ContentOf(2)])
                ELSE NewArticle(2),
                NewArticle(1)>>
    /\ remote = [u \in Users |-> NoDocs]
    /\ ops = {}
    /\ nextId = 3
    /\ calls = 0
    /\ ext = NoExt
    /\ ui = NoUi
    /\ last = NoLast

NextReader ==
    \/ \E id \in Ids : OpenReader(id)
    \/ CloseReader
    \/ \E id \in Ids : FetchSucceeds(id)
    \/ \E id \in Ids : FetchFails(id)

SpecReader == InitReader /\ [][NextReader]_vars

----------------------------------------------------------------------------
\* ContentFetcher.fetchHTML step by step (src/content-fetcher.js 17-53): for
\* each proxy a timer is set that aborts the request, the request is awaited,
\* the timer is cleared when the response (its status and headers) is there,
\* and then the body is awaited. The proxy answers when it likes, or never.

\* What the catch block has logged so far, then the next proxy or the final throw.
ProxyFailed(view, reason) ==
    IF view.proxyIndex < ProxyCount
    THEN [view EXCEPT !.failures = Append(@, reason),
                      !.proxyIndex = @ + 1,
                      !.fetchPc = "fetch",
                      !.abortTimer = TRUE]
    ELSE [view EXCEPT !.failures = Append(@, reason),
                      !.fetchPc = "threw",
                      !.abortTimer = FALSE]

\* One step of fetchHTML: the view changes and nothing else does.
FetchStep(type, view) ==
    /\ ui' = view
    /\ last' = [NoLast EXCEPT !.type = type, !.n = ui.proxyIndex]
    /\ UNCHANGED <<ext, build, isConfigured, listenerFired, currentUser,
                   unsubscribeSnapshot, subs, nextHandle, localArticles, remote,
                   ops, nextId, calls>>

\* fetchHTML(url) is called: the first proxy is asked and its timer set.
CallFetchHTML ==
    /\ ui.fetchPc = "idle"
    /\ FetchStep("fetchHTML", [ui EXCEPT !.fetchPc = "fetch", !.proxyIndex = 1,
                                         !.abortTimer = TRUE])

\* await fetch(...) resolves: clearTimeout(timeoutId); a status that is not ok
\* is thrown, otherwise response.text() is awaited.
ResponseArrives(ok) ==
    /\ ui.fetchPc = "fetch"
    /\ FetchStep("response",
                 IF ok THEN [ui EXCEPT !.abortTimer = FALSE, !.fetchPc = "text"]
                 ELSE ProxyFailed([ui EXCEPT !.abortTimer = FALSE], "http"))

\* await fetch(...) rejects with a network error.
RequestFails ==
    /\ ui.fetchPc = "fetch"
    /\ FetchStep("networkError", ProxyFailed(ui, "network"))

\* The timer fires: controller.abort() rejects whatever the request still
\* awaits, the fetch or the reading of its body.
AbortTimeout ==
    /\ ui.abortTimer
    /\ ui.fetchPc \in {"fetch", "text"}
    /\ FetchStep("abort", ProxyFailed(ui, "abort"))

\* await response.text() resolves: the HTML is returned when it is valid,
\* otherwise 'Invalid response' is thrown.
BodyArrives(valid) ==
    /\ ui.fetchPc = "text"
    /\ FetchStep("body",
                 IF valid THEN [ui EXCEPT !.fetchPc = "returned"]
                 ELSE ProxyFailed(ui, "invalid"))

NextStall ==
    \/ CallFetchHTML
    \/ \E ok \in BOOLEAN : ResponseArrives(ok)
    \/ RequestFails
    \/ AbortTimeout
    \/ \E valid \in BOOLEAN : BodyArrives(valid)

\* A timer that is set fires; the network promises nothing.
SpecStall == Init /\ [][NextStall]_vars /\ WF_vars(AbortTimeout)

----------------------------------------------------------------------------
\* The choice of the content node (src/content-fetcher.js 164-181,
\* src/reader.js 439-452). A document is given by what each selector of the
\* list finds: 0 for no element, otherwise the length of the element's trimmed text.

TextLengths == {0, 150, 250, 400}

RECURSIVE Matches(_)
Matches(n) ==
    IF n = 0 THEN {<<>>}
    ELSE {Append(m, len) : m \in Matches(n - 1), len \in TextLengths}

\* el.textContent.trim().length > 300 in ContentFetcher, > 200 in Reader
LongEnough(which, len) == IF which = "ContentFetcher" THEN len > 300 ELSE len > 200

\* ContentFetcher: contentEl is assigned only when the element qualifies.
RECURSIVE SelectLoopFetcher(_, _)
SelectLoopFetcher(matches, k) ==
    IF k > Len(matches) THEN 0
    ELSE IF matches[k] # 0 /\ LongEnough("ContentFetcher", matches[k]) THEN k
    ELSE SelectLoopFetcher(matches, k + 1)

\* Reader: contentEl = doc.querySelector(selector) in every round, and the
\* loop is left when it qualifies; after the last round contentEl is whatever
\* the last selector found.
RECURSIVE SelectLoopReader(_, _, _)
SelectLoopReader(matches, k, contentEl) ==
    IF k > Len(matches) THEN contentEl
    ELSE LET el == IF matches[k] # 0 THEN k ELSE 0 IN
         IF el # 0 /\ LongEnough("Reader", matches[k]) THEN el
         ELSE SelectLoopReader(matches, k + 1, el)

\* The content node: the selector whose element is used, 0 for doc.body
\* (if (!contentEl) contentEl = doc.body).
selectContent(which, matches) ==
    IF which = "ContentFetcher" THEN SelectLoopFetcher(matches, 1)
    ELSE SelectLoopReader(matches, 1, 0)

SelectContent(which, matches) ==
    /\ last' = [NoLast EXCEPT !.type = "select", !.kind = which,
                              !.payload = matches,
                              !.n = selectContent(which, matches)]
    /\ UNCHANGED <<ui, ext, build, isConfigured, listenerFired, currentUser,
                   unsubscribeSnapshot, subs, nextHandle, localArticles, remote,
                   ops, nextId, calls>>

NextSelect ==
    \E which \in Extractors, matches \in Matches(MaxSelectors) :
        SelectContent(which, matches)

SpecSelect == Init /\ [][NextSelect]_vars

----------------------------------------------------------------------------
\* A reader left open on an article that is deleted from the list
\* (src/reader.js 743-749, 1068-1083, 1186-1195).

\* Reader.saveHighlights() after a highlight was made: the current article's
\* content and the highlights go to Storage.updateArticle under its id.
SaveHighlights ==
    /\ ui.currentArticle # <<>>
    /\ StorageCallFrom("update", ui.currentArticle[1]["id"],
                       [content    |-> OrElse(ui.currentArticle[1], "content", ""),
                        highlights |-> Append(ui.highlights, "h")],
                       TRUE,
                       [ui EXCEPT !.highlights = Append(@, "h"),
                                  !.currentArticle =
                                     <<Spread(@[1], [highlights |-> Append(ui.highlights, "h")])>>])
    /\ UNCHANGED nextId

\* Signed in with the subscription live and one article saved and synced.
InitSynced ==
    /\ build = "reader_a"
    /\ isConfigured = TRUE
    /\ listenerFired = TRUE
    /\ currentUser \in Users
    /\ unsubscribeSnapshot = 1
    /\ subs = {[handle |-> 1, uid |-> currentUser]}
    /\ nextHandle = 2
    /\ remote = [u \in Users |->
                    IF u = currentUser
                    THEN SetDoc(NoDocs, 1, AddFields("reader_a", NewArticle(1)))
                    ELSE NoDocs]
    /\ localArticles = SnapshotArticles("reader_a", remote[currentUser], 1)
    /\ ops = {}
    /\ nextId = 2
    /\ calls = 0
    /\ ext = NoExt
    /\ ui = NoUi
    /\ last = NoLast

NextDeleted ==
    \/ \E id \in Ids : OpenReader(id)
    \/ CloseReader
    \/ SaveHighlights
    \/ \E id \in Ids : DeleteArticle(id)
    \/ \E s \in subs : Snapshot(s)
    \/ \E op \in ops : RemoteResolve(op)
    \/ \E op \in ops, reason \in RejectReasons : RemoteReject(op, reason)

SpecDeleted == InitSynced /\ [][NextDeleted]_vars

----------------------------------------------------------------------------
\* UI.handleAddArticle in its two halves (src/reader.js 1981-2060): the
\* duplicate check runs when the handler starts, the article is stored after
\* the metadata fetch was awaited. The form's submit and the Ctrl+Enter
\* shortcut of the url input (src/reader.js 1776-1779, 1942-1946) both start
\* it, the shortcut also while an earlier invocation is waiting.

\* The urls typed into the form, as new URL() parses them.
WebUrls ==
    {[protocol |-> "https:", hostname |-> "www.a.com", pathname |-> "/x/"],
     [protocol |-> "http:",  hostname |-> "a.com",     pathname |-> "/x"],
     [protocol |-> "https:", hostname |-> "b.com",     pathname |-> "/"]}

\* hostname.replace(/^www\./, '')
StripWww(hostname) == IF hostname = "www.a.com" THEN "a.com" ELSE hostname

\* normalized.replace(/\/$/, '') on hostname + pathname: the path's part of it.
StripSlash(pathname) ==
    CASE pathname = "/x/" -> "/x"
      [] pathname = "/"   -> ""
      [] OTHER            -> pathname

\* normalizeUrl(url): host without www. and path without the trailing slash
\* (the protocol is dropped; the model's urls are lower case already).
normalizeUrl(url) ==
    [hostname |-> StripWww(url.hostname), pathname |-> StripSlash(url.pathname)]

\* articles.find(a => this.normalizeUrl(a.url) === normalizedUrl)
FindDuplicate(articles, url) ==
    \E k \in 1..Len(articles) :
        /\ "url" \in DOMAIN articles[k]
        /\ normalizeUrl(articles[k]["url"]) = normalizeUrl(url)

\* The handler starts: the duplicate check against the stored articles, the
\* confirm() when one is found, and then the wait for the metadata. A
\* declined confirm ends the handler.
BeginAddArticle(url, confirmAdd) ==
    LET duplicate == FindDuplicate(localArticles, url)
        n         == calls + Cardinality(ui.adding) + 1
    IN
    /\ calls + Cardinality(ui.adding) < MaxCalls
    /\ ui' = IF duplicate /\ ~confirmAdd THEN ui
             ELSE [ui EXCEPT !.adding = @ \cup
                       {[n |-> n, url |-> url, asked |-> duplicate]}]
    /\ last' = [NoLast EXCEPT !.type = "beginAdd", !.n = n,
                              !.result = IF ~duplicate THEN "new"
                                         ELSE IF confirmAdd THEN "confirmed"
                                         ELSE "declined"]
    /\ UNCHANGED <<ext, build, isConfigured, listenerFired, currentUser,
                   unsubscribeSnapshot, subs, nextHandle, localArticles, remote,
                   ops, nextId, calls>>

\* The metadata fetch is over (with or without data): the article is built
\* and handed to Storage.addArticle.
FinishAddArticle(invocation) ==
    /\ invocation \in ui.adding
    /\ StorageCallFrom("add", nextId,
                       Spread(NewArticle(nextId), [url |-> invocation.url]), TRUE,
                       [ui EXCEPT !.adding = @ \ {invocation},
                                  !.confirmShown =
                                      IF invocation.asked THEN @ \cup {nextId} ELSE @])
    /\ nextId' = nextId + 1

NextOverlap ==
    \/ \E url \in WebUrls, confirmAdd \in BOOLEAN : BeginAddArticle(url, confirmAdd)
    \/ \E invocation \in ui.adding : FinishAddArticle(invocation)
    \/ \E id \in Ids : DeleteArticle(id)

SpecOverlap == Init /\ [][NextOverlap]_vars

----------------------------------------------------------------------------
\* Properties of the web application's write path and subscription.

\* The record of the collection with this id (the first, as findIndex finds it).
ArticleOf(articles, id) == articles[FindIndex(articles, id)]

\* The cache shows the change a Storage call asked for.
Reflects(articles, kind, id, payload) ==
    CASE kind = "add"    -> /\ id \in IdsOf(articles)
                            /\ ArticleOf(articles, id) = payload
      [] kind = "update" -> id \in IdsOf(articles) =>
                              \A f \in DOMAIN payload :
                                  /\ f \in DOMAIN ArticleOf(articles, id)
                                  /\ ArticleOf(articles, id)[f] = payload[f]
      [] kind = "delete" -> id \notin IdsOf(articles)

\* The last step was a Storage call's remote write being rejected.
WriteRejected == last.type = "done" /\ last.reason # ""

SnapshotIdSet(coll) == {i \in DOMAIN coll : "dateAdded" \in DOMAIN coll[i]}

\* C3: after each snapshot delivered to the live subscription the Local Cache is
\* exactly the snapshot's documents, one record per document keyed by the
\* document id and carrying the document's fields; a record that was only local
\* is gone and nothing of the previous local state is merged in.
C3_SnapshotReplacesCache ==
    [][last'.type = "snapshot" =>
        LET coll == remote[last'.uid] IN
        /\ IdsOf(localArticles') = SnapshotIdSet(coll)
        /\ Len(localArticles') = Cardinality(SnapshotIdSet(coll))
        /\ \A k \in 1..Len(localArticles') :
              \A f \in DOMAIN coll[localArticles'[k]["id"]] :
                  localArticles'[k][f] = coll[localArticles'[k]["id"]][f]
        /\ \A k \in 1..Len(localArticles) :
              localArticles[k]["id"] \notin SnapshotIdSet(coll) =>
                  localArticles[k]["id"] \notin IdsOf(localArticles')
        /\ \A k \in 1..Len(localArticles') :
              LET rec == localArticles'[k]
                  doc == coll[rec["id"]]
              IN  /\ DOMAIN rec \subseteq
                        {"id", "folderId", "isArchived", "isRead", "tags",
                         "dateAdded"} \cup DOMAIN doc
                  /\ ("isRead" \notin DOMAIN doc) => (rec["isRead"] = FALSE)
                  /\ ("tags" \notin DOMAIN doc) => (rec["tags"] = <<>>)
      ]_vars

\* C3 witness: a snapshot has just replaced a cache, dropping a local-only
\* record and bringing in a remote document.
C3_Witness ==
    /\ last.type = "snapshot"
    /\ ops = {}
    /\ localArticles # <<>>
    /\ \E i \in 1..(nextId - 1) : i \notin IdsOf(localArticles)

\* C4: at most one live remote subscription exists at any time.
C4_AtMostOneSubscription == Cardinality(subs) <= 1

\* C5: when the auth listener reports sign-out, the subscription held is
\* unsubscribed and the Local Cache article collection is empty immediately
\* afterwards.
C5_SignOutClearsCache ==
    [][(last'.type = "auth" /\ last'.uid = NoUser /\ currentUser # NoUser) =>
        /\ unsubscribeSnapshot' = 0
        /\ \A sub \in subs' : sub.handle # unsubscribeSnapshot
        /\ localArticles' = <<>>
      ]_vars

----------------------------------------------------------------------------
\* Properties of the tag normalizer.

\* Every tag of the collection, in the order the articles and their lists give.
RECURSIVE TagStream(_)
TagStream(articles) ==
    IF articles = <<>> THEN <<>>
    ELSE (IF HasTags(Head(articles)) THEN Head(articles)["tags"] ELSE <<>>)
         \o TagStream(Tail(articles))

Occurrences(stream, tag) == Cardinality({k \in 1..Len(stream) : stream[k] = tag})

FirstAt(stream, tag) ==
    CHOOSE k \in 1..Len(stream) :
        stream[k] = tag /\ \A j \in 1..(k - 1) : stream[j] # tag

\* c is the casing of its lowercase group with the most occurrences in the
\* stream and, among those with as many, the one met first.
IsCanonical(stream, c) ==
    /\ \E k \in 1..Len(stream) : stream[k] = c
    /\ \A k \in 1..Len(stream) :
          ToLowerCase(stream[k]) = ToLowerCase(c) =>
              \/ Occurrences(stream, stream[k]) < Occurrences(stream, c)
              \/ /\ Occurrences(stream, stream[k]) = Occurrences(stream, c)
                 /\ FirstAt(stream, c) <= FirstAt(stream, stream[k])

\* C9: a second normalizeExistingTags run right after a first one, with no edit
\* in between, saves nothing and leaves every article as the first run left it.
C9_NormalizerIdempotent ==
    [][(last.type = "normalize" /\ last'.type = "normalize") =>
        /\ last'.writes = 0
        /\ localArticles' = localArticles
      ]_vars

\* C9 witness: the second of two runs in a row has made no write after a first
\* run that rewrote some article.
C9_Witness ==
    /\ last.type = "normalize"
    /\ last.streak = 2
    /\ last.prevWrites > 0
    /\ last.writes = 0

\* C10: after normalizeExistingTags every tag list is the original list with
\* each tag replaced by the canonical casing of its lowercase group (highest
\* count over all articles, first met on a tie), nothing else changes, and no
\* two tags of the cache differ only by case.
C10_CanonicalCasing ==
    [][last'.type = "normalize" =>
        LET stream == TagStream(localArticles) IN
        /\ Len(localArticles') = Len(localArticles)
        /\ \A k \in 1..Len(localArticles) :
              LET old == localArticles[k]
                  new == localArticles'[k]
              IN  /\ DOMAIN new = DOMAIN old
                  /\ \A f \in (DOMAIN old) \ {"tags"} : new[f] = old[f]
                  /\ HasTags(old) =>
                        /\ Len(new["tags"]) = Len(old["tags"])
                        /\ \A i \in 1..Len(old["tags"]) :
                              /\ ToLowerCase(new["tags"][i]) = ToLowerCase(old["tags"][i])
                              /\ IsCanonical(stream, new["tags"][i])
        /\ \A i, j \in 1..Len(TagStream(localArticles')) :
              ToLowerCase(TagStream(localArticles')[i]) =
                  ToLowerCase(TagStream(localArticles')[j])
              => TagStream(localArticles')[i] = TagStream(localArticles')[j]
      ]_vars

\* C10 witness: a run has rewritten exactly one of three articles so that all
\* three carry "UX", the casing two of them had.
C10_Witness ==
    /\ last.type = "normalize"
    /\ last.writes = 1
    /\ Len(localArticles) = 3
    /\ \A k \in 1..3 : HasTags(localArticles[k]) /\ localArticles[k]["tags"] = <<"UX">>

----------------------------------------------------------------------------
\* Properties of the extension's save handlers.

\* The article of the last save is stored under one of the extension's keys.
StoredLocally(article) ==
    \E key \in DOMAIN ext.store :
        \E k \in 1..Len(ext.store[key]) : ext.store[key][k] = article

\* The first remote write of the last save failed with an expired
\* authentication.
AuthExpiredFailure == last.reason \in {"401", "403"}

\* C2: in every save of the extension, a remote write is issued only after the
\* local write of the same save has been applied.
C2_LocalBeforeRemote ==
    last.type \in {"popup", "background"} =>
        \A k \in 1..Len(last.trace) :
            last.trace[k] = "remote" =>
                \E j \in 1..(k - 1) : last.trace[j] = "local"

\* C6: a save whose remote write failed with an expired authentication made
\* exactly one silent refresh and, when it succeeded, exactly one retry, whose
\* success ends the save as a success; no save makes more than one refresh or
\* more than two remote writes.
C6_OneRefreshOneRetry ==
    last.type \in {"popup", "background"} =>
        /\ last.refreshes <= 1
        /\ last.attempts <= 2
        /\ AuthExpiredFailure =>
              /\ last.refreshes = 1
              /\ last.attempts = IF last.refreshed THEN 2 ELSE 1
              /\ last.retryOk => last.result = "success"

\* C7: after a save whose remote write failed with an expired authentication
\* and whose refresh failed, or whose retry failed too, the article is stored
\* locally and the session is signed out in memory and in storage.
C7_FailedRefreshKeepsArticle ==
    (/\ last.type \in {"popup", "background"}
     /\ AuthExpiredFailure
     /\ last.refreshes = 1
     /\ ~(last.refreshed /\ last.retryOk)) =>
        /\ StoredLocally(last.payload)
        /\ ext.user = NoUser
        /\ ext.idToken = "none"
        /\ ext.auth = NoAuth

----------------------------------------------------------------------------
\* Properties of the snapshot decoding, the error callback and restarts.

\* The fields every cached article is to carry once a snapshot was applied.
DefaultedFields == {"folderId", "isRead", "isFavorite", "isArchived", "tags", "dateAdded"}

\* C11: right after a snapshot was applied by the current src/reader.js, every
\* cached article has folderId, isRead, isFavorite, isArchived, tags and
\* dateAdded defined.
C11_SnapshotDefaults ==
    (last.type = "snapshot" /\ build = "reader_a") =>
        \A k \in 1..Len(localArticles) :
            DefaultedFields \subseteq DOMAIN localArticles[k]

\* C12: a subscription error, whatever its code, leaves the Local Cache article
\* collection as it was, and the articles rendered afterwards are the cached
\* ones.
C12_SubscriptionErrorKeepsCache ==
    [][last'.type = "snapshotError" =>
        /\ localArticles' = localArticles
        /\ last'.payload = localArticles
      ]_vars

\* C12 witness: a permission-denied error arrived over a cache that holds an
\* article, and the cache still holds it.
C12_Witness ==
    /\ last.type = "snapshotError"
    /\ last.reason = "permission-denied"
    /\ Len(localArticles) > 0
    /\ last.payload = localArticles

\* C13: an article added or updated through Storage while unauthenticated is
\* still in the Local Cache, as the call left it, after the application was
\* started again and the auth listener's first callback has reported no user.
C13_DurableAcrossRestart ==
    [][(/\ last.type = "restart"
        /\ last.kind \in {"add", "update"}
        /\ last'.type = "auth"
        /\ last'.uid = NoUser) =>
        Reflects(localArticles', last.kind, last.id, last.payload)
      ]_vars

\* C14: a Storage call whose local persistence write fails leaves the stored
\* collection exactly as it was and is reported failed to its caller (it does
\* not return true).
C14_LocalWriteFailureReported ==
    [][(last'.type = "call" /\ ~last'.localOk) =>
        /\ localArticles' = localArticles
        /\ last'.result # "true"
      ]_vars

\* The articles stored under the background script's key, as a set.
BackgroundStored(e) ==
    {e.store[BackgroundKey][k] : k \in 1..Len(e.store[BackgroundKey])}

\* C15: no update is lost to interleaving: a saveArticle call that completes
\* with success, for a url no stored article has, leaves its article in the
\* store together with every article that was stored when it completed.
C15_NoLostUpdate ==
    [][(/\ last'.type = "saveToLocal"
        /\ last'.result = "success"
        /\ \A a \in BackgroundStored(ext) : a["url"] # last'.payload["url"]) =>
        /\ last'.payload \in BackgroundStored(ext')
        /\ BackgroundStored(ext) \subseteq BackgroundStored(ext')
      ]_vars

\* C16: LocalStorage.updateArticle(id, partial) on an id the cache holds sets
\* the fields named in partial on the record with that id and changes nothing
\* else: not its other fields, not another record, not the order.
C16_UpdateIsShallowMerge ==
    [][(/\ last'.type = "call"
        /\ last'.kind = "update"
        /\ last'.localOk
        /\ last'.id \in IdsOf(localArticles)) =>
        /\ Len(localArticles') = Len(localArticles)
        /\ \A k \in 1..Len(localArticles) :
              LET old == localArticles[k]
                  new == localArticles'[k]
              IN  IF old["id"] = last'.id
                  THEN /\ DOMAIN new = (DOMAIN old) \cup (DOMAIN last'.payload)
                       /\ \A f \in DOMAIN last'.payload : new[f] = last'.payload[f]
                       /\ \A f \in (DOMAIN old) \ (DOMAIN last'.payload) :
                             new[f] = old[f]
                  ELSE new = old
      ]_vars

\* C16 witness: an update has given the older of two cached articles a field it
\* did not have, and the newer one is in front of it without that field.
C16_Witness ==
    /\ last.type = "call"
    /\ last.kind = "update"
    /\ last.payload = [highlights |-> <<"h">>]
    /\ Len(localArticles) = 2
    /\ localArticles[2]["id"] = last.id
    /\ "highlights" \in DOMAIN localArticles[2]
    /\ localArticles[2]["isFavorite"] = FALSE
    /\ "highlights" \notin DOMAIN localArticles[1]

----------------------------------------------------------------------------
\* Properties of the content fetcher.

\* A proxy's answer that may be returned: it arrived in time with a 2xx
\* status, contains a tag marker and is longer than the minimum length.
Returnable(outcome) ==
    /\ outcome.timeout = FALSE
    /\ outcome.status \in 200..299
    /\ outcome.html.hasTag
    /\ outcome.html.length >= MinHtmlLength + 1

\* C17: fetchHTML asks the proxies in list order, returns the body of the first
\* one whose answer is returnable without asking a later one, never returns
\* anything else, and throws only when it has asked all of them in vain.
C17_FirstValidStrategy ==
    last.type = "fetch" =>
        LET outcomes == last.payload.outcomes
            good     == {i \in 1..Len(outcomes) : Returnable(outcomes[i])}
        IN  IF good # {}
            THEN LET first == CHOOSE i \in good : \A j \in good : i <= j IN
                 /\ last.result = "return"
                 /\ last.payload.html = outcomes[first].html
                 /\ last.trace = [k \in 1..first |-> k]
            ELSE /\ last.result = "throw"
                 /\ last.trace = [k \in 1..Len(outcomes) |-> k]

\* C17 witness: the first two proxies timed out, the third answered with valid
\* HTML, and the call returned the third's body.
C17_Witness ==
    /\ last.type = "fetch"
    /\ last.payload.outcomes[1].timeout
    /\ last.payload.outcomes[2].timeout
    /\ last.result = "return"
    /\ last.payload.html.proxy = 3
    /\ last.trace = <<1, 2, 3>>

----------------------------------------------------------------------------
\* Properties of the content extraction.

\* C18: whenever the structural extraction yields under 500 characters and the
\* content node has text, the fallback returns non-empty text; so does the
\* extraction of a document that is one 40-character paragraph.
C18_FallbackNonEmpty ==
    (/\ last.type = "extract"
     /\ last.result = "fallback"
     /\ SumOf(last.payload) > 0) =>
        Len(last.trace) > 0

----------------------------------------------------------------------------
\* Properties of article identity and of the remote encoding.

\* C19: every article in the Local Cache has an id, and no two cached articles
\* share one.
C19_UniqueIds ==
    /\ \A k \in 1..Len(localArticles) : "id" \in DOMAIN localArticles[k]
    /\ \A j, k \in 1..Len(localArticles) :
          j # k => IdOf(localArticles[j]) # IdOf(localArticles[k])

\* C20: an article encoded to the remote document fields and decoded back is
\* equal to the original in every field.
C20_RoundTripIdentity ==
    last.type = "roundtrip" => last.trace[1] = last.payload

\* C21: a save whose url an already stored article has is detected and left
\* to the caller, never rejected: the caller can have the second article
\* stored. Here for the context-menu save of the background script: whenever
\* it ends on a url the store already holds, the new article is in the store.
C21_DuplicateIsSoft ==
    [][(/\ last'.type = "background"
        /\ \E a \in BackgroundStored(ext) : a["url"] = last'.payload["url"]) =>
        last'.payload \in BackgroundStored(ext')
      ]_vars

\* C22: deleting a folder deletes no article, and afterwards no article has
\* the deleted folder's id as its folderId.
C22_DeleteFolderKeepsArticles ==
    [][(last'.type = "deleteFolder" /\ last'.result = "confirmed") =>
        /\ localArticles' = localArticles
        /\ \A k \in 1..Len(localArticles') :
              localArticles'[k]["folderId"] # last'.reason
      ]_vars

\* The cached article with the given id.
Cached(articles, id) == articles[FindIndex(articles, id)]

\* C23: a completed reading session on an article in the Local Cache leaves
\* the article's stored readCount one higher, its totalReadTime higher by the
\* session's duration and its lastReadAt set, the session appended to the
\* history and the current session cleared.
C23_SessionCountsOnce ==
    [][(/\ last'.type = "endSession"
        /\ ui.currentSession # <<>>
        /\ last'.id \in IdsOf(localArticles)) =>
        /\ last'.id \in IdsOf(localArticles')
        /\ OrElse(Cached(localArticles', last'.id), "readCount", 0)
             = OrElse(Cached(localArticles, last'.id), "readCount", 0) + 1
        /\ OrElse(Cached(localArticles', last'.id), "totalReadTime", 0)
             = OrElse(Cached(localArticles, last'.id), "totalReadTime", 0) + last'.n
        /\ "lastReadAt" \in DOMAIN Cached(localArticles', last'.id)
        /\ ui'.readingSessions =
             Append(ui.readingSessions, [articleId |-> last'.id, duration |-> last'.n])
        /\ ui'.currentSession = <<>>
      ]_vars

\* C24: the stored readProgress of an article never decreases, over any
\* sequence of progress saves, updates and snapshots: an article that is in
\* the Local Cache before and after a step has a readProgress at least as
\* high after it.
C24_ProgressNeverDecreases ==
    [][\A id \in IdsOf(localArticles) \cap IdsOf(localArticles') :
          ReadProgressOf(localArticles', id) >= ReadProgressOf(localArticles, id)
      ]_vars

\* C25: a stale load is ignored when superseded: the content fetched for one
\* article is never stored under another article's id and never shown while
\* another article is the reader's current one.
C25_StaleFetchIgnored ==
    /\ \A k \in 1..Len(localArticles) :
          OrElse(localArticles[k], "content", "")
              \in {"", ContentOf(localArticles[k]["id"])}
    /\ ui.currentArticle # <<>> =>
          /\ OrElse(ui.currentArticle[1], "content", "")
                \in {"", ContentOf(ui.currentArticle[1]["id"])}
          /\ ui.view = "article" => ui.shown = ContentOf(ui.currentArticle[1]["id"])

\* C26: fetchHTML always terminates: a call that was made eventually returns
\* the HTML or throws 'All proxies failed', also when a proxy stalls at any
\* stage, because the timer aborts what has not completed.
C26_FetchTerminates ==
    (ui.fetchPc # "idle") ~> (ui.fetchPc \in {"returned", "threw"})

\* The selectors whose element exists and has text above the threshold.
Qualifying(which, matches) ==
    {k \in 1..Len(matches) : matches[k] # 0 /\ LongEnough(which, matches[k])}

\* C27: the content node is the element of the first selector, in list order,
\* whose element has text longer than the threshold; when no selector
\* qualifies, also when some selector finds an element whose text is too
\* short, it is the document body.
C27_FirstQualifyingSelector ==
    last.type = "select" =>
        LET q == Qualifying(last.kind, last.payload) IN
        IF q = {} THEN last.n = 0
        ELSE last.n = CHOOSE k \in q : \A j \in q : k <= j

\* C28: a deleted article stays deleted: once an article that was saved is
\* neither in the Local Cache nor in the signed-in user's remote collection,
\* no later step makes a record with its id exist in either again.
C28_DeletedStaysDeleted ==
    [][\A id \in 1..(nextId - 1) :
          (/\ currentUser # NoUser
           /\ id \notin IdsOf(localArticles)
           /\ id \notin DOMAIN remote[currentUser]) =>
          (/\ id \notin IdsOf(localArticles')
           /\ id \notin DOMAIN remote'[currentUser])
      ]_vars

\* C29: duplicate detection is not bypassed by overlap: two stored articles
\* whose urls normalize identically are never both stored without the
\* duplicate confirmation having been shown for one of them.
C29_OverlapSeesDuplicate ==
    \A j, k \in 1..Len(localArticles) :
        (/\ j < k
         /\ normalizeUrl(localArticles[j]["url"]) = normalizeUrl(localArticles[k]["url"])) =>
        \/ localArticles[j]["id"] \in ui.confirmShown
        \/ localArticles[k]["id"] \in ui.confirmShown

\* C30: the Kindle import merges into the right record only: when an article
\* with the book's title exists, the highlights of that article alone are
\* extended with the book's new highlights, and every other article is
\* unchanged.
C30_MergeIntoRightRecord ==
    [][Len(ui'.imports) > Len(ui.imports) =>
        LET title == ui'.imports[Len(ui'.imports)]
            found == FindTitle(localArticles, title)
        IN  found # 0 =>
              /\ Len(localArticles') = Len(localArticles)
              /\ \A k \in 1..Len(localArticles) :
                    k # found => localArticles'[k] = localArticles[k]
              /\ localArticles'[found]["highlights"] =
                    MergeHighlights(localArticles[found]["highlights"],
                                    last'.payload["highlights"])
      ]_vars

====
